---- MODULE Spec2Model ----
(***************************************************************************)
(* Model of the collaborative chat / shared-document system:               *)
(*   - the service-side subscription broker (BeelayHandler),               *)
(*   - the client-side commit ingestor (persistCommitsForChannel) over the *)
(*     local store (SQLiteService),                                        *)
(*   - the client-side live-sync pipeline (processCommitEvent,             *)
(*     selectChannel, leaveChannel, document debounce).                    *)
(***************************************************************************)
EXTENDS Integers, Sequences, FiniteSets, TLC

(***************************************************************************)
(* Bounds and value domains.                                               *)
(***************************************************************************)
MaxRegs == 3            \* registrations ever created on the broker
MaxRequests == 2        \* mutation requests (createDoc/addCommits/addWorkerCommit)
MaxInFlight == 1        \* handler calls suspended at the same time

MaxBatch == 2           \* commits in one ingest call
MaxIngests == 2         \* ingest calls
ClockStart == 3         \* Date.now() at start (payload timestamps are 1 and 2)
MaxClock == 4           \* Date.now() stops advancing here
MaxProcs == 2           \* processCommitEvent calls suspended at an await
MaxEvents == 2          \* server events delivered to the page
MaxEdits == 1           \* keystrokes in the document editor
MaxOps == 2             \* selectChannel / leaveChannel / joinChannelByAddress calls

DocIds == {"X", "Y"}
NoDoc == "none"         \* an absent (undefined / empty) docId argument
Targets == {"t1", "t2"} \* client event targets (RPC stubs)
Hashes == {"h1", "h2"}  \* commit hashes

\* The (target, docId filter) pairs clients register with.
Subscriptions == {<<"t1", NoDoc>>, <<"t1", "X">>, <<"t2", "Y">>}

\* The page's event target as the service receives it on the page's RPC
\* session n: one stub per session.
MaxSessions == 3
PageStub(n) == <<"p1", "p2", "p3", "p4">>[n]
SessionConn(n) == <<"s1", "s2", "s3", "s4">>[n]
PageStubs == {PageStub(n) : n \in 1..MaxSessions}

\* The connection (RPC session) a target stub was received on.
ConnOf(t) ==
  CASE t = "t1" -> "c1"
    [] t = "t2" -> "c2"
    [] t = "p1" -> "s1"
    [] t = "p2" -> "s2"
    [] t = "p3" -> "s3"
    [] t = "p4" -> "s4"
    [] OTHER -> "c2"
Conns == {ConnOf(t) : t \in Targets}

Range(s) == {s[i] : i \in 1..Len(s)}

\* The sequence s without its element at position i.
RemoveAt(s, i) == [j \in 1..(Len(s) - 1) |-> IF j < i THEN s[j] ELSE s[j + 1]]

\* The sequence s without the value v (Set.delete on an insertion-ordered set).
SeqDelete(s, v) ==
  IF \E i \in 1..Len(s) : s[i] = v
    THEN RemoveAt(s, CHOOSE i \in 1..Len(s) : s[i] = v)
    ELSE s

(***************************************************************************)
(* Broker state (BeelayHandler).                                           *)
(***************************************************************************)
VARIABLES
  clientTargets,   \* Set<ClientRegistration> in insertion order: Seq of registration ids
  regs,            \* registration id -> [orig, docId]: originalTarget and docId filter
  nextReg,         \* next unused registration id
  disposeCount,    \* registration id -> number of Symbol.dispose calls on its retained target
  removedBy,       \* registration id -> "none" | "unregister" | "failure" | "broken"
  brokenConns,     \* connections that have reported onRpcBroken
  req,             \* request id -> the handler call and its broadcast
  nextReq,         \* next unused request id
  engineDocs,      \* documents the replication engine holds
  engineLog        \* mutations the replication engine has accepted


brokerVars == <<clientTargets, regs, nextReg, disposeCount, removedBy,
                brokenConns, req, nextReq, engineDocs, engineLog>>

VARIABLES
  now,             \* Date.now()
  dbMode,          \* "promiser" (worker, OPFS) or "direct" (oo1 fallback)
  msgRows,         \* table messages: rows, primary key id = msg-<commitHash>
  docRows,         \* stored DocumentHistoryEntry rows
  snapshots,       \* table channel_documents: channel -> row
  dbLastModified,  \* table channels: channel -> last_modified
  changes,         \* SQLite changes(): rows changed by the last completed write
  chanLm,          \* in-memory Channel objects: channel -> lastModified
  ing,             \* the running persistCommitsForChannel call
  ingests,         \* ingest calls made so far
  prev,            \* the previous ingest call and the rows it left
  dbQueue          \* statements posted to the database and not yet run, oldest first

storeVars == <<now, dbMode, msgRows, docRows, snapshots, dbLastModified, changes,
               chanLm, ing, ingests, prev>>

VARIABLES
  ui,                      \* which page runs: "svelte" (+page.svelte) or "react" (App.tsx)
  chanDoc,                 \* channels: channel id -> docId ("none": not in the list)
  currentChannel,          \* currentChannel / currentChannelRef: [id, docId]
  connectionStatus,
  rpc,                     \* "null" or "open"
  subscriptionActive,
  subscriptionDocId,
  serverSubs,              \* documents the service holds a registration of this page for
  documentContent,
  latestDocumentContent,
  documentHistory,         \* DocumentCommitEntry[], sorted by timestamp
  documentDebounce,        \* the pending 500 ms timer of scheduleDocumentSync
  applyingRemoteDocument,
  guardTimers,             \* pending setTimeout(0) callbacks that clear the guard
  messages,                \* Message[], sorted by timestamp
  processedCommitHashes,
  procs,                   \* processCommitEvent calls suspended at an await
  op,                      \* the running selectChannel / leaveChannel / joinChannelByAddress
  sent,                    \* document commits submitted with addWorkerCommit
  events,                  \* server events delivered so far
  lastEvent,               \* what processCommitEvent did with the latest event
  edits,                   \* keystrokes so far
  ops                      \* user operations started so far

uiVars == <<ui, chanDoc, currentChannel, connectionStatus, rpc, subscriptionActive,
            subscriptionDocId, serverSubs, documentContent, latestDocumentContent,
            documentHistory, documentDebounce, applyingRemoteDocument, guardTimers,
            messages, processedCommitHashes, procs, op, sent, events, lastEvent, edits, ops>>

VARIABLES
  rpcSession,      \* the RPC session the page variable `rpc` holds (0: null)
  sessions,        \* RPC sessions the page has opened so far
  disposed,        \* sessions whose main stub the page has disposed
  calls,           \* overlapping selectChannel / leaveChannel calls: id -> frame
  wire             \* register / unregister calls sent and not yet handled, oldest first

subsVars == <<rpcSession, sessions, disposed, calls, wire>>

VARIABLES
  attrIn,          \* the arguments an attribution function is called with
  attrOut,         \* what it returned
  attrOp           \* which function was called ("none": not yet)

attrVars == <<attrIn, attrOut, attrOp>>

VARIABLES
  historyIndex,    \* <<>> (null: the live text) or <<k>>: history entry k, counted from 0
  charAttribution, \* what the reactive attribution block computed last
  pendingTimers,   \* 500 ms timers set and neither fired nor cleared
  latestEdit,      \* the text of the user's latest change (typed or restored)
  restores         \* handleRestoreVersion calls so far

editorVars == <<historyIndex, charAttribution, pendingTimers, latestEdit, restores>>

\* Page state beyond the live session: overlapping channel calls, calls of the
\* attribution functions, and the history slider of the document editor.
pageExtra == <<subsVars, attrVars, editorVars>>

\* Everything outside the service, and everything outside the store.
clientSide == <<storeVars, uiVars, dbQueue, pageExtra>>
outsideStore == <<brokerVars, uiVars, pageExtra>>

RegIds == 1..MaxRegs
ReqIds == 1..MaxRequests

NoReg == [orig |-> "none", docId |-> NoDoc]
NoReq == [kind |-> "none", docId |-> NoDoc, commits |-> {}, phase |-> "unused",
          snap |-> <<>>, idx |-> 0, offered |-> <<>>, threw |-> {},
          goneAtStart |-> {}]

\* The loop's filter: `if (docId && registration.docId && registration.docId !== docId) continue`.
SkipsMutant(filter, docId) == filter /= docId
Skips(filter, docId) == docId /= NoDoc /\ filter /= NoDoc /\ filter /= docId

\* unregisterClientTarget's test on one registration.
UnregisterMatchesAnyDoc(r, target, docId) == r.orig = target
UnregisterMatches(r, target, docId) ==
  r.orig = target /\ (docId = NoDoc \/ r.docId = docId)

\* Position in snap of the next registration at or after position i that the
\* loop does not skip; Len(snap) + 1 when the loop runs off the end.
NextOffer(snap, i, docId) ==
  LET cand == {j \in i..Len(snap) : ~Skips(regs[snap[j]].docId, docId)}
  IN IF cand = {} THEN Len(snap) + 1
     ELSE CHOOSE j \in cand : \A k \in cand : j <= k

\* The broadcast loop run from position i of the snapshot up to its next
\* suspension (the await of a delivery) or to its end.
RunLoop(r, i) ==
  LET j == NextOffer(r.snap, i, r.docId)
  IN IF j <= Len(r.snap)
       THEN [r EXCEPT !.phase = "await", !.idx = j,
                      !.offered = Append(r.offered, r.snap[j])]
       ELSE [r EXCEPT !.phase = "done", !.idx = j]

\* The registrations released so far.
Gone == {id \in RegIds : removedBy[id] /= "none"}

\* broadcast(event, docId): snapshot `[...this.clientTargets]`, then the loop.
Broadcast(r) ==
  RunLoop([r EXCEPT !.snap = clientTargets, !.goneAtStart = Gone], 1)

\* The event a request broadcasts.
EventOf(r) ==
  [type |-> CASE r.kind = "createDoc" -> "docCreated"
              [] r.kind = "addCommits" -> "commitsAdded"
              [] OTHER -> "commitAdded",
   docId |-> r.docId, commits |-> r.commits]

\* The mutation the replication engine is asked to accept for a request.
MutationOf(r) == [kind |-> r.kind, docId |-> r.docId, commits |-> r.commits]

(***************************************************************************)
(* Broker operations.                                                      *)
(***************************************************************************)
\* A broadcast has run off the end of its loop and its handler is returning:
\* the return belongs to the same synchronous run, nothing else runs before it.
Returning == \E b \in ReqIds : req[b].phase = "done"

\* registerClientTarget(target, docId?): what it does to the broker.
Registers(t, d) ==
  /\ ~Returning
  /\ nextReg <= MaxRegs
  /\ ConnOf(t) \notin brokenConns
  /\ regs' = [regs EXCEPT ![nextReg] = [orig |-> t, docId |-> d]]
  /\ clientTargets' = Append(clientTargets, nextReg)
  /\ nextReg' = nextReg + 1
  /\ UNCHANGED <<disposeCount, removedBy, brokenConns, req, nextReq,
                 engineDocs, engineLog>>

\* registerClientTarget(target, docId?)
RegisterClientTarget(t, d) ==
  /\ Registers(t, d)
  /\ UNCHANGED clientSide

\* One more Symbol.dispose call on a retained target; the count saturates at
\* "more than once".
Disposed(n) == IF n < 2 THEN n + 1 ELSE n

\* Dispose the retained target of registration id and delete the registration.
ReleaseKeepsRegistration(id, cause) ==
  /\ disposeCount' = [disposeCount EXCEPT ![id] = Disposed(@)]
  /\ clientTargets' = clientTargets
  /\ removedBy' = [removedBy EXCEPT ![id] = IF @ = "none" THEN cause ELSE @]
ReleaseLeaks(id, cause) ==
  /\ disposeCount' = disposeCount
  /\ clientTargets' = SeqDelete(clientTargets, id)
  /\ removedBy' = [removedBy EXCEPT ![id] = IF @ = "none" THEN cause ELSE @]
Release(id, cause) ==
  /\ disposeCount' = [disposeCount EXCEPT ![id] = Disposed(@)]
  /\ clientTargets' = SeqDelete(clientTargets, id)
  /\ removedBy' = [removedBy EXCEPT ![id] = IF @ = "none" THEN cause ELSE @]

\* unregisterClientTarget(target, docId?): what it does to the broker.
Unregisters(t, d) ==
  /\ ~Returning
  /\ ConnOf(t) \notin brokenConns
  /\ LET hits == {i \in 1..Len(clientTargets) :
                    UnregisterMatches(regs[clientTargets[i]], t, d)}
     IN IF hits = {}
          THEN UNCHANGED <<disposeCount, clientTargets, removedBy>>
          ELSE Release(clientTargets[CHOOSE i \in hits : \A k \in hits : i <= k],
                       "unregister")
  /\ UNCHANGED <<regs, nextReg, brokenConns, req, nextReq, engineDocs, engineLog>>

\* unregisterClientTarget(target, docId?)
UnregisterClientTarget(t, d) ==
  /\ Unregisters(t, d)
  /\ UNCHANGED clientSide

\* The onRpcBroken callbacks of connection c fire: each disposes its
\* registration's retained target and deletes the registration.  Whether the
\* callback of an already released stub still fires is left open (late).
RpcBroken(c) ==
  /\ ~Returning
  /\ c \notin brokenConns
  /\ brokenConns' = brokenConns \cup {c}
  /\ LET mine == {id \in 1..(nextReg - 1) : ConnOf(regs[id].orig) = c}
         live == {id \in mine : id \in Range(clientTargets)}
     IN \E late \in SUBSET (mine \ live) :
          /\ disposeCount' = [id \in RegIds |->
                                IF id \in live \cup late THEN Disposed(disposeCount[id])
                                ELSE disposeCount[id]]
          /\ clientTargets' = SelectSeq(clientTargets, LAMBDA id : id \notin live)
          /\ removedBy' = [id \in RegIds |->
                             IF id \in live THEN "broken" ELSE removedBy[id]]
  /\ UNCHANGED clientSide
  /\ UNCHANGED <<regs, nextReg, req, nextReq, engineDocs, engineLog>>

\* A handler call arrives and suspends on the replication engine.
StartRequest(kind, d, cs) ==
  /\ ~Returning
  /\ nextReq <= MaxRequests
  /\ Cardinality({b \in ReqIds : req[b].phase \in {"engine", "await"}}) < MaxInFlight
  /\ req' = [req EXCEPT ![nextReq] =
               [NoReq EXCEPT !.kind = kind, !.docId = d, !.commits = cs,
                             !.phase = "engine"]]
  /\ nextReq' = nextReq + 1
  /\ UNCHANGED clientSide
  /\ UNCHANGED <<clientTargets, regs, nextReg, disposeCount, removedBy,
                 brokenConns, engineDocs, engineLog>>

\* createDoc(options): the document id is the engine's answer.
CreateDoc == StartRequest("createDoc", NoDoc, {})

\* addCommits(options): options.docId is passed on unvalidated.
AddCommits(d, cs) == StartRequest("addCommits", d, cs)

\* addWorkerCommit(docId, content): one new commit on top of the latest one.
AddWorkerCommit(d, h) == StartRequest("addWorkerCommit", d, {h})

\* What the handler does when its engine call has returned or thrown: it
\* broadcasts after a return, and a throw leaves the handler.
AfterEngineMutant(r, accepted) == Broadcast(r)
AfterEngine(r, accepted) ==
  IF accepted THEN Broadcast(r) ELSE [NoReq EXCEPT !.phase = "failed"]

\* The engine call of request b settles.  Accepted: the engine records the
\* mutation, the handler resumes and broadcasts up to the first delivery it
\* awaits.  Otherwise (the engine throws, or addWorkerCommit finds no
\* document) the handler throws.
EngineSettles(b, accepted) ==
  /\ ~Returning
  /\ req[b].phase = "engine"
  /\ \E d \in DocIds \cup {NoDoc} :
       /\ CASE req[b].kind = "createDoc" ->
                 IF accepted THEN d \in DocIds \ engineDocs ELSE d = NoDoc
            [] req[b].kind = "addWorkerCommit" ->
                 d = req[b].docId /\ (accepted => d \in engineDocs)
            [] OTHER -> d = req[b].docId
       /\ LET r == [req[b] EXCEPT !.docId = d]
          IN /\ engineDocs' = IF accepted /\ r.kind = "createDoc"
                                THEN engineDocs \cup {d} ELSE engineDocs
             /\ engineLog' = IF accepted THEN engineLog \cup {MutationOf(r)}
                             ELSE engineLog
             /\ req' = [req EXCEPT ![b] = AfterEngine(r, accepted)]
  /\ UNCHANGED clientSide
  /\ UNCHANGED <<clientTargets, regs, nextReg, disposeCount, removedBy,
                 brokenConns, nextReq>>

\* The delivery request b awaits settles: it resolved (ok) or threw.  A call on
\* a disposed stub or over a broken connection throws.
DeliverySettles(b, ok) ==
  /\ ~Returning
  /\ req[b].phase = "await"
  /\ LET id == req[b].snap[req[b].idx]
     IN /\ ok => disposeCount[id] = 0 /\ ConnOf(regs[id].orig) \notin brokenConns
        /\ IF ok
             THEN /\ UNCHANGED <<disposeCount, clientTargets, removedBy>>
                  /\ req' = [req EXCEPT ![b] = RunLoop(req[b], req[b].idx + 1)]
             ELSE /\ Release(id, "failure")
                  /\ req' = [req EXCEPT ![b] =
                               RunLoop([req[b] EXCEPT !.threw = @ \cup {id}],
                                       req[b].idx + 1)]
  /\ UNCHANGED clientSide
  /\ UNCHANGED <<regs, nextReg, brokenConns, nextReq, engineDocs, engineLog>>

\* The handler of request b returns to its caller; its broadcast is over.
HandlerReturns(b) ==
  /\ req[b].phase = "done"
  /\ req' = [req EXCEPT ![b] = [NoReq EXCEPT !.phase = "returned"]]
  /\ UNCHANGED clientSide
  /\ UNCHANGED <<clientTargets, regs, nextReg, disposeCount, removedBy,
                 brokenConns, nextReq, engineDocs, engineLog>>

BrokerInit ==
  /\ clientTargets = <<>>
  /\ regs = [id \in RegIds |-> NoReg]
  /\ nextReg = 1
  /\ disposeCount = [id \in RegIds |-> 0]
  /\ removedBy = [id \in RegIds |-> "none"]
  /\ brokenConns = {}
  /\ req = [b \in ReqIds |-> NoReq]
  /\ nextReq = 1
  /\ engineDocs = {"X"}
  /\ engineLog = {}

(***************************************************************************)
(* Commits and their payloads.  A commit's hash is a digest of its         *)
(* contents, so a hash stands for one payload.                             *)
(***************************************************************************)
NoField == "absent"     \* a payload field that is missing

\* The decoded contents of each commit: whether toUint8Array accepts the
\* encoding, whether JSON.parse succeeds, and the payload's fields.
PayloadOf(h) ==
  CASE h = "m1" -> [encoded |-> TRUE, parses |-> TRUE, type |-> "message",
                    user |-> "alice", content |-> "hi", hasTs |-> TRUE, ts |-> 1]
    [] h = "m2" -> [encoded |-> TRUE, parses |-> TRUE, type |-> NoField,
                    user |-> NoField, content |-> "yo", hasTs |-> FALSE, ts |-> 0]
    [] h = "d1" -> [encoded |-> TRUE, parses |-> TRUE, type |-> "document",
                    user |-> "alice", content |-> "a", hasTs |-> TRUE, ts |-> 2]
    [] h = "d2" -> [encoded |-> TRUE, parses |-> TRUE, type |-> "document",
                    user |-> " bob ", content |-> "b", hasTs |-> FALSE, ts |-> 0]
    [] h = "f1" -> [encoded |-> TRUE, parses |-> TRUE, type |-> "message",
                    user |-> "bob", content |-> "yo", hasTs |-> TRUE, ts |-> MaxClock + 1]
    [] h = "n1" -> [encoded |-> TRUE, parses |-> TRUE, type |-> "message",
                    user |-> "alice", content |-> NoField, hasTs |-> TRUE, ts |-> 1]
    [] h = "n2" -> [encoded |-> TRUE, parses |-> TRUE, type |-> "document",
                    user |-> "alice", content |-> NoField, hasTs |-> FALSE, ts |-> 0]
    [] h = "u1" -> [encoded |-> FALSE, parses |-> FALSE, type |-> NoField,
                    user |-> NoField, content |-> NoField, hasTs |-> FALSE, ts |-> 0]
    [] h = "m3" -> [encoded |-> TRUE, parses |-> TRUE, type |-> "message",
                    user |-> " bob ", content |-> "yo", hasTs |-> TRUE, ts |-> 2]
    [] h = "d3" -> [encoded |-> TRUE, parses |-> TRUE, type |-> "document",
                    user |-> "bob", content |-> "c", hasTs |-> TRUE, ts |-> 1]
    [] h = "e1" -> [encoded |-> TRUE, parses |-> TRUE, type |-> "document",
                    user |-> "carol", content |-> "v1", hasTs |-> TRUE, ts |-> ClockStart]
    [] h = "e2" -> [encoded |-> TRUE, parses |-> TRUE, type |-> "document",
                    user |-> "carol", content |-> "v2", hasTs |-> TRUE, ts |-> ClockStart]
    [] h = "k1" -> [encoded |-> TRUE, parses |-> TRUE, type |-> "reaction",
                    user |-> "alice", content |-> "ok", hasTs |-> TRUE, ts |-> 1]
    [] h = "i0" -> [encoded |-> TRUE, parses |-> TRUE, type |-> "init",
                    user |-> NoField, content |-> NoField, hasTs |-> FALSE, ts |-> 0]
    [] OTHER    -> [encoded |-> TRUE, parses |-> FALSE, type |-> NoField,
                    user |-> NoField, content |-> NoField, hasTs |-> FALSE, ts |-> 0]

IngestHashes == {"m1", "m2", "d1", "d2", "x1"}
Channels == {"A", "B", "C"}

\* String.prototype.trim on the user names of the model.
Trim(u) == IF u = " bob " THEN "bob" ELSE u

\* `payload?.user?.trim() || 'anonymous'`
UserOf(p) == IF p.user = NoField \/ Trim(p.user) = "" THEN "anonymous" ELSE Trim(p.user)

\* `typeof payload?.type === 'string' ? payload.type : 'message'`
TypeOf(p) == IF p.type = NoField THEN "message" ELSE p.type

Max(a, b) == IF a >= b THEN a ELSE b

\* All sequences over S of length at most n.
SeqsUpTo(S, n) == UNION {[1..k -> S] : k \in 0..n}

(***************************************************************************)
(* The local store (SQLiteService) and the commit ingestor.                *)
(***************************************************************************)
\* Who posted a statement: the ingest call, the channel operation, or a
\* processCommitEvent call.
IngId == <<"ing", 0>>
OpId == <<"op", 0>>
ProcId(i) == <<"proc", i>>

\* The statement at the head of the queue is the one the database runs next.
AtHead(who) == dbQueue /= <<>> /\ Head(dbQueue) = who
Push(q, who, posts) == IF posts THEN Append(q, who) ELSE q

\* The ingest call is waiting for a statement.
StorePending(pc) ==
  pc \in {"saveDocCommit", "saveMessage", "selectChanges", "saveDocument", "updateLastModified"}

NoSnapshot == [content |-> NoField, updatedAt |-> 0, latestCommitHash |-> NoField]
NoIngest ==
  [pc |-> "idle", channel |-> "A", list |-> <<>>, pos |-> 1, ts |-> 0,
   chanLastModified |-> 0, messageCount |-> 0, documentCount |-> 0,
   newRows |-> 0,
   latestActivity |-> 0, latestDocumentTimestamp |-> 0,
   latestDocumentHash |-> NoField, latestDocumentContent |-> ""]
NoPrev == [valid |-> FALSE, channel |-> "A", list |-> <<>>, msgRows |-> {},
           docRows |-> {}, snapshots |-> [c \in Channels |-> NoSnapshot]]

\* INSERT OR IGNORE INTO messages: the row is added unless its id is taken.
InsertMessage(rows, row) ==
  IF \E r \in rows : r.commitHash = row.commitHash THEN rows ELSE rows \cup {row}

\* saveChannelDocumentCommit: insert-if-absent, keyed by channel and hash.
InsertDocCommit(rows, row) ==
  IF \E r \in rows : r.channelId = row.channelId /\ r.commitHash = row.commitHash
    THEN rows ELSE rows \cup {row}

\* What saveMessage reports from the changes() it read.
Inserted(n) == n > 0

\* The code after the loop and after the snapshot write: lines 383-394.
AfterSnapshot(g) ==
  IF g.latestActivity /= g.chanLastModified
    THEN [g EXCEPT !.pc = "updateLastModified"]
    ELSE [g EXCEPT !.pc = "done"]

\* The code after the loop: lines 374-381.
AfterLoop(g) ==
  IF g.documentCount > 0 THEN [g EXCEPT !.pc = "saveDocument"] ELSE AfterSnapshot(g)

\* `continue`: the loop goes on with the next commit.
ContinueEndsBatch(g) == [g EXCEPT !.pos = Len(g.list) + 1]
Continue(g) == [g EXCEPT !.pos = @ + 1]

\* The for loop of persistCommitsForChannel from commit g.pos on, up to the
\* next store call it awaits, to the end of the function, or to a throw.
RECURSIVE IngestLoop(_)
IngestLoop(g) ==
  IF g.pos > Len(g.list) THEN AfterLoop(g)
  ELSE
    LET p == PayloadOf(g.list[g.pos])
    IN IF ~p.encoded THEN [g EXCEPT !.pc = "threw"]
       ELSE IF ~p.parses THEN IngestLoop(Continue(g))
       ELSE
         LET ts == IF p.hasTs THEN p.ts ELSE now
             seen == [g EXCEPT !.ts = ts, !.latestActivity = Max(@, ts)]
         IN IF p.content = NoField \/ TypeOf(p) \notin {"document", "message"}
              THEN IngestLoop(Continue(seen))
              ELSE IF TypeOf(p) = "document"
                THEN [seen EXCEPT !.pc = "saveDocCommit"]
                ELSE [seen EXCEPT !.pc = "saveMessage"]

\* persistCommitsForChannel has settled and its caller, suspended on it, runs
\* next (a promise continuation runs before any other task).
ContinuationReady == op.pc \in {"hydrating", "joinIngest"} /\ ing.pc \in {"done", "threw"}

\* A new task may start: no continuation is ready, and on the direct API, where
\* statements run inside the call, no statement is outstanding.
Quiescent == ~ContinuationReady /\ (dbMode = "promiser" \/ dbQueue = <<>>)

\* persistCommitsForChannel(channel, commits) up to its first await.
StartIngest(c, lastModified, list) ==
  IngestLoop([NoIngest EXCEPT !.pc = "loop", !.channel = c, !.list = list,
                              !.chanLastModified = lastModified,
                              !.latestActivity = lastModified])

\* persistCommitsForChannel(channel, commits) is called.
IngestCall(c, list) ==
  /\ Quiescent
  /\ ing.pc \in {"idle", "done", "threw"}
  /\ ingests < MaxIngests
  /\ ingests' = ingests + 1
  /\ prev' = [valid |-> ing.pc = "done", channel |-> ing.channel, list |-> ing.list,
              msgRows |-> msgRows, docRows |-> docRows, snapshots |-> snapshots]
  /\ ing' = StartIngest(c, chanLm[c], list)
  /\ UNCHANGED outsideStore
  /\ UNCHANGED <<now, dbMode, msgRows, docRows, snapshots, dbLastModified, changes, chanLm>>
  /\ dbQueue' = Push(dbQueue, IngId, StorePending(ing'.pc))

\* `await sqliteService.saveChannelDocumentCommit(...)`, then lines 346-350.
IngestSaveDocCommit ==
  /\ ~ContinuationReady
  /\ AtHead(IngId)
  /\ ing.pc = "saveDocCommit"
  /\ LET h == ing.list[ing.pos]
         p == PayloadOf(h)
         row == [channelId |-> ing.channel, commitHash |-> h, user |-> UserOf(p),
                 content |-> p.content, timestamp |-> ing.ts]
     IN /\ docRows' = InsertDocCommit(docRows, row)
        /\ changes' = IF docRows' = docRows THEN 0 ELSE 1
        /\ ing' = IngestLoop([ing EXCEPT
                     !.latestDocumentTimestamp = Max(@, ing.ts),
                     !.latestDocumentHash = h,
                     !.latestDocumentContent = p.content,
                     !.documentCount = @ + 1,
                     !.pos = @ + 1])
  /\ UNCHANGED outsideStore
  /\ UNCHANGED <<now, dbMode, msgRows, snapshots, dbLastModified, chanLm, ingests, prev>>
  /\ dbQueue' = Push(Tail(dbQueue), IngId, StorePending(ing'.pc))

\* Lines 368-371 with what saveMessage returned.
CountMessage(g, inserted) ==
  IngestLoop([g EXCEPT !.messageCount = IF inserted THEN @ + 1 ELSE @,
                       !.pos = @ + 1])

\* saveMessage: the INSERT OR IGNORE.  The direct API reads changes() in the
\* same turn; the worker API reads it with a second statement.
IngestSaveMessage ==
  /\ ~ContinuationReady
  /\ AtHead(IngId)
  /\ ing.pc = "saveMessage"
  /\ LET h == ing.list[ing.pos]
         p == PayloadOf(h)
         row == [commitHash |-> h, channelId |-> ing.channel, user |-> UserOf(p),
                 content |-> p.content, timestamp |-> ing.ts]
     IN /\ msgRows' = InsertMessage(msgRows, row)
        /\ changes' = IF msgRows' = msgRows THEN 0 ELSE 1
        /\ LET g == [ing EXCEPT !.newRows = IF msgRows' = msgRows THEN @ ELSE @ + 1]
           IN ing' = IF dbMode = "direct"
                       THEN CountMessage(g, Inserted(changes'))
                       ELSE [g EXCEPT !.pc = "selectChanges"]
  /\ UNCHANGED outsideStore
  /\ UNCHANGED <<now, dbMode, docRows, snapshots, dbLastModified, chanLm, ingests, prev>>
  /\ dbQueue' = Push(Tail(dbQueue), IngId, StorePending(ing'.pc))

\* saveMessage on the worker API: `SELECT changes()`.
IngestSelectChanges ==
  /\ ~ContinuationReady
  /\ AtHead(IngId)
  /\ ing.pc = "selectChanges"
  /\ ing' = CountMessage(ing, Inserted(changes))
  /\ UNCHANGED outsideStore
  /\ UNCHANGED <<now, dbMode, msgRows, docRows, snapshots, dbLastModified, changes,
                 chanLm, ingests, prev>>
  /\ dbQueue' = Push(Tail(dbQueue), IngId, StorePending(ing'.pc))

\* `await sqliteService.saveChannelDocument(...)` after the loop.
IngestSaveDocument ==
  /\ ~ContinuationReady
  /\ AtHead(IngId)
  /\ ing.pc = "saveDocument"
  /\ snapshots' = [snapshots EXCEPT ![ing.channel] =
                     [content |-> ing.latestDocumentContent,
                      updatedAt |-> IF ing.latestDocumentTimestamp /= 0
                                      THEN ing.latestDocumentTimestamp ELSE now,
                      latestCommitHash |-> ing.latestDocumentHash]]
  /\ changes' = 1
  /\ ing' = AfterSnapshot(ing)
  /\ UNCHANGED outsideStore
  /\ UNCHANGED <<now, dbMode, msgRows, docRows, dbLastModified, chanLm, ingests, prev>>
  /\ dbQueue' = Push(Tail(dbQueue), IngId, StorePending(ing'.pc))

\* `await sqliteService.updateChannelLastModified(channel.id, latestActivity)`.
IngestUpdateLastModified ==
  /\ ~ContinuationReady
  /\ AtHead(IngId)
  /\ ing.pc = "updateLastModified"
  /\ dbLastModified' = [dbLastModified EXCEPT ![ing.channel] = ing.latestActivity]
  /\ changes' = 1
  /\ ing' = [ing EXCEPT !.pc = "done"]
  /\ UNCHANGED outsideStore
  /\ UNCHANGED <<now, dbMode, msgRows, docRows, snapshots, chanLm, ingests, prev>>
  /\ dbQueue' = Push(Tail(dbQueue), IngId, StorePending(ing'.pc))

\* Time passes.
Tick ==
  /\ now < MaxClock
  /\ now' = now + 1
  /\ UNCHANGED outsideStore
  /\ UNCHANGED <<dbMode, msgRows, docRows, snapshots, dbLastModified, changes,
                 chanLm, ing, ingests, prev>>
  /\ UNCHANGED dbQueue

StoreInit ==
  /\ now = ClockStart
  /\ dbMode \in {"promiser", "direct"}
  /\ msgRows = {}
  /\ docRows = {}
  /\ snapshots = [c \in Channels |-> NoSnapshot]
  /\ dbLastModified = [c \in Channels |-> 1]
  /\ changes = 0
  /\ chanLm = [c \in Channels |-> 1]
  /\ ing = NoIngest
  /\ ingests = 0
  /\ prev = NoPrev
  /\ dbQueue = <<>>

(***************************************************************************)
(* Character attribution: mergeAttribution, computeCharAttribution and     *)
(* ensureAttributionMatchesContent.  A string is the sequence of its       *)
(* UTF-16 code units; "H" and "L" stand for a high and a low surrogate.    *)
(***************************************************************************)
MaxAttr == 3        \* longest previous attribution and nextChars tried
MaxBase == 2        \* longest base attribution tried with a content string
MaxUnits == 3       \* longest content string tried, in code units
MaxEntries == 3     \* longest history tried

Authors == {"alice", "bob"}
Chars == {"a", "b"}
Units == {"a", "b", "H", "L"}

\* Contents of the history entries tried.
EntryContents ==
  {<<>>, <<"a">>, <<"b">>, <<"a", "b">>, <<"b", "a">>, <<"H", "L">>, <<"a", "H", "L">>}

\* Array.from(value): the characters (code points) of a string; a high
\* surrogate followed by a low surrogate is one character.
RECURSIVE ArrayFromString(_)
ArrayFromString(value) ==
  IF value = <<>> THEN <<>>
  ELSE IF Len(value) >= 2 /\ value[1] = "H" /\ value[2] = "L"
         THEN <<"HL">> \o ArrayFromString(SubSeq(value, 3, Len(value)))
         ELSE <<value[1]>> \o ArrayFromString(Tail(value))

\* nextChars.map((char) => ({ char, author }))
AllBy(chars, author) == [k \in 1..Len(chars) |-> [char |-> chars[k], author |-> author]]

\* previous.map((item) => item.char)
CharsOf(attribution) == [k \in 1..Len(attribution) |-> attribution[k].char]

\* The table dp of mergeAttribution: dp[i][j] for 0 <= i <= prevLength and
\* 0 <= j <= nextLength, filled from the far corner.
DpTable(prevChars, nextChars) ==
  LET prevLength == Len(prevChars)
      nextLength == Len(nextChars)
      dp[i \in 0..prevLength, j \in 0..nextLength] ==
        IF i = prevLength \/ j = nextLength THEN 0
        ELSE IF prevChars[i + 1] = nextChars[j + 1] THEN dp[i + 1, j + 1] + 1
        ELSE Max(dp[i + 1, j], dp[i, j + 1])
  IN dp

\* `dp[i + 1][j] >= dp[i][j + 1]`: the previous character is dropped.
PrefersDeletionStrictly(down, right) == down > right
PrefersDeletion(down, right) == down >= right

\* The author of a character found in both texts: `previous[i].author`.
CarriedAuthorIsNew(prevAuthor, fallbackAuthor) == fallbackAuthor
CarriedAuthor(prevAuthor, fallbackAuthor) == prevAuthor

\* The second loop: `while (j < nextLength) result.push(...)`, j counted from 0.
TrailingDropped(nextChars, j, fallbackAuthor) == <<>>
Trailing(nextChars, j, fallbackAuthor) ==
  [k \in 1..(Len(nextChars) - j) |-> [char |-> nextChars[j + k], author |-> fallbackAuthor]]

\* The first loop from (i, j), counted from 0 as in the code, and the second.
RECURSIVE MergeWalk(_, _, _, _, _, _)
MergeWalk(previous, nextChars, fallbackAuthor, dp, i, j) ==
  IF i < Len(previous) /\ j < Len(nextChars)
    THEN IF previous[i + 1].char = nextChars[j + 1]
           THEN <<[char |-> nextChars[j + 1],
                   author |-> CarriedAuthor(previous[i + 1].author, fallbackAuthor)]>>
                \o MergeWalk(previous, nextChars, fallbackAuthor, dp, i + 1, j + 1)
           ELSE IF PrefersDeletion(dp[i + 1, j], dp[i, j + 1])
                  THEN MergeWalk(previous, nextChars, fallbackAuthor, dp, i + 1, j)
                  ELSE <<[char |-> nextChars[j + 1], author |-> fallbackAuthor]>>
                       \o MergeWalk(previous, nextChars, fallbackAuthor, dp, i, j + 1)
    ELSE Trailing(nextChars, j, fallbackAuthor)

mergeAttribution(previous, nextChars, fallbackAuthor) ==
  IF Len(previous) = 0
    THEN AllBy(nextChars, fallbackAuthor)
    ELSE MergeWalk(previous, nextChars, fallbackAuthor,
                   DpTable(CharsOf(previous), nextChars), 0, 0)

\* The loop body of computeCharAttribution for one entry.
AttributeEntryKeepsOnEmpty(attribution, entry) ==
  IF entry.content = <<>> THEN attribution
  ELSE IF Len(attribution) = 0 THEN AllBy(ArrayFromString(entry.content), entry.user)
  ELSE mergeAttribution(attribution, ArrayFromString(entry.content), entry.user)
AttributeEntry(attribution, entry) ==
  IF entry.content = <<>> THEN <<>>
  ELSE IF Len(attribution) = 0 THEN AllBy(ArrayFromString(entry.content), entry.user)
  ELSE mergeAttribution(attribution, ArrayFromString(entry.content), entry.user)

\* computeCharAttribution(entries) after its first n entries.
RECURSIVE AttributionAfter(_, _)
AttributionAfter(entries, n) ==
  IF n = 0 THEN <<>> ELSE AttributeEntry(AttributionAfter(entries, n - 1), entries[n])

computeCharAttribution(entries) == AttributionAfter(entries, Len(entries))

ensureAttributionMatchesContent(base, content, fallbackAuthor) ==
  IF Len(base) = 0 /\ Len(ArrayFromString(content)) = 0
    THEN <<>>
    ELSE mergeAttribution(base, ArrayFromString(content), fallbackAuthor)

\* Inputs the functions are applied to.
AttributionsUpTo(n) ==
  SeqsUpTo({[char |-> c, author |-> a] : c \in Chars, a \in Authors}, n)
HelloByAlice == AllBy(<<"h", "e", "l", "l", "o">>, "alice")
MergeInputs ==
  {[kind |-> "merge", previous |-> p, nextChars |-> n, fallbackAuthor |-> f] :
     p \in AttributionsUpTo(MaxAttr), n \in SeqsUpTo(Chars, MaxAttr), f \in Authors}
  \cup {[kind |-> "merge", previous |-> HelloByAlice,
         nextChars |-> <<"h", "u", "l", "l", "o">>, fallbackAuthor |-> "bob"]}
EnsureInputs ==
  {[kind |-> "ensure", base |-> b, content |-> c, fallbackAuthor |-> f] :
     b \in AttributionsUpTo(MaxBase), c \in SeqsUpTo(Units, MaxUnits), f \in Authors}
ComputeInputs ==
  {[kind |-> "compute", entries |-> e] :
     e \in SeqsUpTo({[user |-> u, content |-> c] :
                       u \in Authors, c \in EntryContents}, MaxEntries)}
  \cup {[kind |-> "compute",
         entries |-> <<[user |-> "alice", content |-> <<"h", "e", "l", "l", "o">>]>>]}
NoInput == [kind |-> "none"]

\* mergeAttribution is called.
ApplyMergeAttribution ==
  /\ attrOp = "none"
  /\ attrIn.kind = "merge"
  /\ attrOut' = mergeAttribution(attrIn.previous, attrIn.nextChars, attrIn.fallbackAuthor)
  /\ attrOp' = "merge"
  /\ UNCHANGED <<attrIn, subsVars, editorVars>>
  /\ UNCHANGED <<brokerVars, storeVars, uiVars, dbQueue>>

\* computeCharAttribution is called.
ApplyComputeCharAttribution ==
  /\ attrOp = "none"
  /\ attrIn.kind = "compute"
  /\ attrOut' = computeCharAttribution(attrIn.entries)
  /\ attrOp' = "compute"
  /\ UNCHANGED <<attrIn, subsVars, editorVars>>
  /\ UNCHANGED <<brokerVars, storeVars, uiVars, dbQueue>>

\* ensureAttributionMatchesContent is called.
ApplyEnsureAttributionMatchesContent ==
  /\ attrOp = "none"
  /\ attrIn.kind = "ensure"
  /\ attrOut' = ensureAttributionMatchesContent(attrIn.base, attrIn.content,
                                                attrIn.fallbackAuthor)
  /\ attrOp' = "ensure"
  /\ UNCHANGED <<attrIn, subsVars, editorVars>>
  /\ UNCHANGED <<brokerVars, storeVars, uiVars, dbQueue>>

AttrIdle ==
  /\ attrIn = NoInput
  /\ attrOut = <<>>
  /\ attrOp = "none"

(***************************************************************************)
(* The commit factory: createCommit of the page, and the hashes the        *)
(* service computes in createDoc and addWorkerCommit.  SHA-256 is taken as *)
(* collision-free: the digest of a byte sequence stands for that sequence. *)
(***************************************************************************)
MaxParents == 2     \* parents of a commit
CommitContents == {"", "a", "ab"}
ParentHashes == {"p1", "p2"}

\* TextEncoder.encode on the contents of the model.
encodeUtf8(value) ==
  CASE value = "" -> <<>>
    [] value = "a" -> <<97>>
    [] value = "ab" -> <<97, 98>>

\* crypto.subtle.digest('SHA-256', data), written in hexadecimal.
Sha256(data) == <<"sha256", data>>

\* What the digest is computed over.
DigestInput(contents, parents) == contents

\* createCommit(content, parents) of the page.
createCommit(content, parents) ==
  LET contents == encodeUtf8(content)
  IN [parents |-> parents, hash |-> Sha256(DigestInput(contents, parents)),
      contents |-> contents]

\* createDoc of the service: the hash of options.initialCommit is recomputed
\* from its contents.
RecomputeHash(commit) ==
  [commit EXCEPT !.hash = Sha256(DigestInput(commit.contents, commit.parents))]

\* addWorkerCommit of the service: the commit it builds on the latest commit.
WorkerCommit(latestHash, content) ==
  LET contents == encodeUtf8(content)
  IN [parents |-> <<latestHash>>, hash |-> Sha256(DigestInput(contents, <<latestHash>>)),
      contents |-> contents]

CommitInputs ==
  {[kind |-> "createCommit", content |-> c, parents |-> ps, others |-> qs] :
     c \in CommitContents, ps \in SeqsUpTo(ParentHashes, MaxParents),
     qs \in SeqsUpTo(ParentHashes, MaxParents)}
  \cup {[kind |-> "createDoc", content |-> c, parents |-> ps] :
          c \in CommitContents, ps \in SeqsUpTo(ParentHashes, MaxParents)}
  \cup {[kind |-> "addWorkerCommit", content |-> c, latest |-> h] :
          c \in CommitContents, h \in ParentHashes}

\* The page builds two commits with the same content.
ApplyCreateCommit ==
  /\ attrOp = "none"
  /\ attrIn.kind = "createCommit"
  /\ attrOut' = <<createCommit(attrIn.content, attrIn.parents),
                  createCommit(attrIn.content, attrIn.others)>>
  /\ attrOp' = "createCommit"
  /\ UNCHANGED <<attrIn, subsVars, editorVars>>
  /\ UNCHANGED <<brokerVars, storeVars, uiVars, dbQueue>>

\* The page builds a commit and passes it to createDoc of the service.
ApplyCreateDoc ==
  /\ attrOp = "none"
  /\ attrIn.kind = "createDoc"
  /\ attrOut' = <<createCommit(attrIn.content, attrIn.parents),
                  RecomputeHash(createCommit(attrIn.content, attrIn.parents))>>
  /\ attrOp' = "createDoc"
  /\ UNCHANGED <<attrIn, subsVars, editorVars>>
  /\ UNCHANGED <<brokerVars, storeVars, uiVars, dbQueue>>

\* The service builds the commit of addWorkerCommit; the page computes the
\* hash of the same content on the same parent.
ApplyAddWorkerCommit ==
  /\ attrOp = "none"
  /\ attrIn.kind = "addWorkerCommit"
  /\ attrOut' = <<createCommit(attrIn.content, <<attrIn.latest>>),
                  WorkerCommit(attrIn.latest, attrIn.content)>>
  /\ attrOp' = "addWorkerCommit"
  /\ UNCHANGED <<attrIn, subsVars, editorVars>>
  /\ UNCHANGED <<brokerVars, storeVars, uiVars, dbQueue>>

(***************************************************************************)
(* The document editor: history slider, restore and the attribution shown. *)
(***************************************************************************)
NullIndex == <<>>
At(k) == <<k>>
LocalUser == "carol"    \* userName.trim() of this page

Min(a, b) == IF a <= b THEN a ELSE b

(***************************************************************************)
(* Cursor preservation: processCommitEvent records and shifts the          *)
(* selection, the reactive block writes it back to the textarea, and the   *)
(* markup update of `bind:value={textareaValue}` sets the textarea's text. *)
(* Svelte runs the reactive statements of a component before it updates    *)
(* the component's markup, so the block of lines 1193-1198 reads the text  *)
(* the textarea held before the commit.                                    *)
(***************************************************************************)
MaxText == 3        \* code units of a document text
CursorTexts ==
  {SubSeq(<<"a", "b", "c", "d">>, 1, n) : n \in 0..MaxText} \cup {<<"x", "y">>}

NullCursor == <<>>

\* The page and its textarea when a remote document commit arrives: the
\* last synchronised text, the text the textarea shows (the live text, with
\* or without an unsent local edit, or the selected revision in time-travel
\* mode), the selection, and the content of the commit.
CursorInputs ==
  {[latest |-> l, shown |-> t, timeTravel |-> tt, newContent |-> n,
    selectionStart |-> a, selectionEnd |-> b] :
     l \in CursorTexts, t \in CursorTexts, tt \in BOOLEAN, n \in CursorTexts,
     a \in 0..MaxText, b \in 0..MaxText}

CursorInputOk(in) ==
  /\ in.selectionStart <= in.selectionEnd
  /\ in.selectionEnd <= Len(in.shown)

\* processCommitEvent, lines 564-584: the selection is read from the
\* textarea, both offsets are shifted by lengthDiff, and the content is
\* assigned.
Shifted(offset, lengthDiff) == Max(0, offset + lengthDiff)

CursorCommitApplied ==
  /\ attrOp = "none"
  /\ attrIn.kind = "cursor"
  /\ LET oldContent == attrIn.latest
         newContent == attrIn.newContent
         lengthDiff == Len(newContent) - Len(oldContent)
     IN attrOut' = [cursorPosition |-> [start |-> Shifted(attrIn.selectionStart, lengthDiff),
                                        end |-> Shifted(attrIn.selectionEnd, lengthDiff)],
                    documentContent |-> newContent,
                    latestDocumentContent |-> newContent,
                    textarea |-> [value |-> attrIn.shown,
                                  selectionStart |-> attrIn.selectionStart,
                                  selectionEnd |-> attrIn.selectionEnd]]
  /\ attrOp' = "applied"
  /\ UNCHANGED <<attrIn, subsVars, editorVars>>
  /\ UNCHANGED <<brokerVars, storeVars, uiVars, dbQueue>>

\* The reactive block of lines 1193-1198.
CursorRestore ==
  /\ attrOp = "applied"
  /\ attrOut.cursorPosition /= NullCursor
  /\ LET newContentLength == Len(attrOut.textarea.value)
     IN attrOut' = [attrOut EXCEPT
          !.textarea.selectionStart = Min(attrOut.cursorPosition.start, newContentLength),
          !.textarea.selectionEnd = Min(attrOut.cursorPosition.end, newContentLength),
          !.cursorPosition = NullCursor]
  /\ attrOp' = "restored"
  /\ UNCHANGED <<attrIn, subsVars, editorVars>>
  /\ UNCHANGED <<brokerVars, storeVars, uiVars, dbQueue>>

\* `textareaValue`, line 1209: the live text, or the selected revision.
TextareaValue == IF attrIn.timeTravel THEN attrIn.shown ELSE attrOut.documentContent

\* The markup update: the textarea's value is set when textareaValue
\* differs from it.  What a textarea does with its selection when its value
\* is set by script is the browser's: the caret moves to the end of the new
\* text, or the offsets are kept within it.
TextareaUpdated ==
  /\ attrOp = "restored"
  /\ LET value == TextareaValue
         area == attrOut.textarea
     IN IF value = area.value
          THEN attrOut' = attrOut
          ELSE \E toEnd \in BOOLEAN :
                 attrOut' = [attrOut EXCEPT !.textarea =
                   [value |-> value,
                    selectionStart |-> IF toEnd THEN Len(value)
                                       ELSE Min(area.selectionStart, Len(value)),
                    selectionEnd |-> IF toEnd THEN Len(value)
                                     ELSE Min(area.selectionEnd, Len(value))]]
  /\ attrOp' = "rendered"
  /\ UNCHANGED <<attrIn, subsVars, editorVars>>
  /\ UNCHANGED <<brokerVars, storeVars, uiVars, dbQueue>>

\* The code units of the document texts of the model.
UnitsOf(content) ==
  CASE content = "" -> <<>>
    [] content = "v1" -> <<"v", "1">>
    [] content = "v2" -> <<"v", "2">>
    [] content = "v3" -> <<"v", "3">>
    [] OTHER -> <<content>>

\* The entries of a history as computeCharAttribution reads them.
EntriesOf(history) ==
  [k \in 1..Len(history) |-> [user |-> history[k].user, content |-> UnitsOf(history[k].content)]]

\* The reactive clamp of historyIndex, lines 1150-1156.
ClampIndex(index, history) ==
  IF Len(history) = 0 THEN NullIndex
  ELSE IF index /= NullIndex /\ index[1] > Len(history) - 1 THEN At(Len(history) - 1)
  ELSE index

\* The reactive attribution block, lines 1158-1191; restore is the value of
\* restoreAttribution it finds.
NoRestore == [set |-> FALSE, value |-> <<>>]
ReactiveAttribution(restore, history, content, index) ==
  IF restore.set
    THEN ensureAttributionMatchesContent(restore.value, UnitsOf(content), LocalUser)
  ELSE IF Len(history) = 0
    THEN IF content = "" THEN <<>>
         ELSE ensureAttributionMatchesContent(<<>>, UnitsOf(content), LocalUser)
  ELSE LET maxIndex == Len(history) - 1
           targetIndex == IF index = NullIndex THEN maxIndex ELSE Min(index[1], maxIndex)
           subset == SubSeq(history, 1, targetIndex + 1)
           baseAttribution == computeCharAttribution(EntriesOf(subset))
           targetContent == IF index = NullIndex \/ subset = <<>>
                              THEN content ELSE subset[Len(subset)].content
       IN ensureAttributionMatchesContent(baseAttribution, UnitsOf(targetContent), LocalUser)

\* clearTimeout(documentDebounce) and setTimeout(..., 500), on the count of
\* pending timers.
ClearTimeout(n, timer) == IF timer.armed THEN n - 1 ELSE n
SetTimeout(n) == n + 1

\* `if (applyingRemoteDocument) return;` of handleDocumentInput.
GuardBlocksNever(flag) == FALSE
GuardBlocks(flag) == flag

\* `Math.max(0, Math.min(nextIndex, documentHistory.length - 1))`
BoundedIndexUnclamped(nextIndex, length) == nextIndex
BoundedIndex(nextIndex, length) == Max(0, Min(nextIndex, length - 1))

\* `documentHistory.slice(0, historyIndex + 1)` of handleRestoreVersion.
RestoreSubsetWhole(history, k) == history
RestoreSubset(history, k) == SubSeq(history, 1, k + 1)

\* documentHistory after handleRestoreVersion: the handler reads a slice of
\* it and assigns nothing to it.
HistoryAfterRestoreTruncated(history, k) == SubSeq(history, 1, k + 1)
HistoryAfterRestore(history, k) == history

(***************************************************************************)
(* The page: live sync pipeline, document editor and channel sessions.     *)
(***************************************************************************)
ProcIds == 1..MaxProcs
EventHashes == {"m1", "d1", "d2", "x1"}
EditValues == {"p"}
NoChannel == [id |-> "none", docId |-> "none"]
NoTimer == [armed |-> FALSE, content |-> "", editedIn |-> "none", closure |-> NoChannel,
            by |-> "none"]

\* isTimeTravelMode, line 1208.
IsTimeTravelMode ==
  Len(documentHistory) > 0 /\ historyIndex /= NullIndex
  /\ historyIndex[1] < Len(documentHistory) - 1

\* The reactive statements that run after the text or the history changed;
\* an assignment that leaves a value as it was invalidates nothing, and the
\* attribution block does not run.
Rerender(index) ==
  /\ historyIndex' = ClampIndex(index, documentHistory')
  /\ charAttribution' =
       IF /\ documentHistory' = documentHistory
          /\ documentContent' = documentContent
          /\ historyIndex' = historyIndex
         THEN charAttribution
         ELSE ReactiveAttribution(NoRestore, documentHistory', documentContent', historyIndex')
NoProc == [pc |-> "free", hash |-> "none", channelId |-> "none", ts |-> 0]
NoOp == [pc |-> "idle", channel |-> NoChannel, active |-> NoChannel, preload |-> <<>>,
         stored |-> NoSnapshot, history |-> {}, hydrated |-> FALSE, createdAt |-> 0]

\* `[...list, e].sort((a, b) => a.timestamp - b.timestamp)` on a sorted list.
RECURSIVE InsertByTimestamp(_, _)
InsertByTimestamp(s, e) ==
  IF s = <<>> THEN <<e>>
  ELSE IF Head(s).timestamp <= e.timestamp
    THEN <<Head(s)>> \o InsertByTimestamp(Tail(s), e)
    ELSE <<e>> \o s

\* Rows in ascending timestamp order.
RECURSIVE SortByTimestamp(_)
SortByTimestamp(rows) ==
  IF rows = {} THEN <<>>
  ELSE LET r == CHOOSE x \in rows : \A y \in rows : x.timestamp <= y.timestamp
       IN <<r>> \o SortByTimestamp(rows \ {r})

HashesOf(s) == {s[i].commitHash : i \in DOMAIN s}

\* processedCommitHashes.has(commitHash)
HasHashNever(set, h) == FALSE
HasHash(set, h) == h \in set

\* processedCommitHashes after the message list was assigned: on the React page
\* the effect on `messages` replaces the set by the hashes of the messages.
AfterMessagesChanged(set, list) == IF ui = "react" THEN HashesOf(list) ELSE set

\* What processCommitEvent does with an event, up to its first await.
EventKind(d, h) ==
  LET p == PayloadOf(h)
  IN IF currentChannel = NoChannel \/ currentChannel.docId /= d THEN "dropped"
     ELSE IF ~p.encoded \/ ~p.parses THEN "failed"
     ELSE IF HasHash(processedCommitHashes, h) THEN "duplicate"
     ELSE IF TypeOf(p) = "document"
       THEN IF p.content = NoField THEN "unexpected" ELSE "document"
       ELSE IF p.user \in {NoField, ""} \/ p.content = NoField
         THEN "unexpected" ELSE "message"

FreeProc == CHOOSE i \in ProcIds : procs[i].pc = "free" /\ \A j \in ProcIds : procs[j].pc = "free" => i <= j

\* handleServerEvent with a commitAdded event for document d carrying commit h.
EventArrives(d, h) ==
  /\ Quiescent
  /\ events < MaxEvents
  /\ d \in serverSubs
  /\ \E i \in ProcIds : procs[i].pc = "free"
  /\ events' = events + 1
  /\ lastEvent' = EventKind(d, h)
  /\ LET p == PayloadOf(h)
         kind == EventKind(d, h)
         ts == IF p.hasTs THEN p.ts ELSE now
     IN /\ processedCommitHashes' =
             IF kind = "unexpected" THEN processedCommitHashes \cup {h}
                                    ELSE processedCommitHashes
        /\ applyingRemoteDocument' = IF kind = "document" THEN TRUE ELSE applyingRemoteDocument
        /\ documentContent' = IF kind = "document" THEN p.content ELSE documentContent
        /\ latestDocumentContent' = IF kind = "document" THEN p.content ELSE latestDocumentContent
        /\ documentDebounce' = IF kind = "document" THEN NoTimer ELSE documentDebounce
        /\ procs' =
             IF kind = "document"
               THEN [procs EXCEPT ![FreeProc] = [pc |-> "saveDocument", hash |-> h,
                                                 channelId |-> currentChannel.id, ts |-> ts]]
             ELSE IF kind = "message"
               THEN [procs EXCEPT ![FreeProc] = [pc |-> "saveMessage", hash |-> h,
                                                 channelId |-> currentChannel.id, ts |-> ts]]
             ELSE procs
  /\ UNCHANGED <<ui, chanDoc, currentChannel, connectionStatus, rpc, subscriptionActive,
                 subscriptionDocId, serverSubs, documentHistory, guardTimers, messages,
                 op, sent, edits, ops>>
  /\ UNCHANGED <<brokerVars, storeVars>>
  /\ dbQueue' = Push(dbQueue, ProcId(FreeProc), procs'[FreeProc].pc /= "free")
  /\ UNCHANGED <<subsVars, attrVars>>
  /\ Rerender(historyIndex)
  /\ pendingTimers' = IF EventKind(d, h) = "document"
                        THEN ClearTimeout(pendingTimers, documentDebounce)
                        ELSE pendingTimers
  /\ UNCHANGED <<latestEdit, restores>>

\* processCommitEvent, document path: saveChannelDocument completes; lines 599-608.
ProcSaveDocument(i) ==
  /\ ~ContinuationReady
  /\ AtHead(ProcId(i))
  /\ procs[i].pc = "saveDocument"
  /\ snapshots' = [snapshots EXCEPT ![procs[i].channelId] =
                     [content |-> PayloadOf(procs[i].hash).content,
                      updatedAt |-> procs[i].ts,
                      latestCommitHash |-> procs[i].hash]]
  /\ changes' = 1
  /\ procs' = IF currentChannel = NoChannel
                THEN [procs EXCEPT ![i] = NoProc]
                ELSE [procs EXCEPT ![i].pc = "saveDocCommit", ![i].channelId = currentChannel.id]
  /\ UNCHANGED <<now, dbMode, msgRows, docRows, dbLastModified, chanLm, ing, ingests, prev>>
  /\ UNCHANGED <<ui, chanDoc, currentChannel, connectionStatus, rpc, subscriptionActive,
                 subscriptionDocId, serverSubs, documentContent, latestDocumentContent,
                 documentHistory, documentDebounce, applyingRemoteDocument, guardTimers,
                 messages, processedCommitHashes, op, sent, events, lastEvent, edits, ops>>
  /\ UNCHANGED brokerVars
  /\ dbQueue' = Push(Tail(dbQueue), ProcId(i), procs'[i].pc /= "free")
  /\ UNCHANGED pageExtra

\* addDocumentCommitToHistory
AddDocumentCommitAgain(list, entry) == InsertByTimestamp(list, entry)
AddDocumentCommitToHistory(list, entry) ==
  IF \E k \in DOMAIN list : list[k].commitHash = entry.commitHash
    THEN list ELSE InsertByTimestamp(list, entry)

\* processCommitEvent, document path: saveChannelDocumentCommit completes; lines 610-622.
ProcSaveDocCommit(i) ==
  /\ ~ContinuationReady
  /\ AtHead(ProcId(i))
  /\ procs[i].pc = "saveDocCommit"
  /\ LET h == procs[i].hash
         p == PayloadOf(h)
         row == [channelId |-> procs[i].channelId, commitHash |-> h, user |-> UserOf(p),
                 content |-> p.content, timestamp |-> procs[i].ts]
         entry == [commitHash |-> h, user |-> UserOf(p), content |-> p.content,
                   timestamp |-> procs[i].ts]
     IN /\ docRows' = InsertDocCommit(docRows, row)
        /\ changes' = IF docRows' = docRows THEN 0 ELSE 1
        /\ documentHistory' = AddDocumentCommitToHistory(documentHistory, entry)
        /\ processedCommitHashes' = processedCommitHashes \cup {h}
  /\ guardTimers' = IF guardTimers < MaxProcs THEN guardTimers + 1 ELSE guardTimers
  /\ procs' = [procs EXCEPT ![i] = NoProc]
  /\ UNCHANGED <<now, dbMode, msgRows, snapshots, dbLastModified, chanLm, ing, ingests, prev>>
  /\ UNCHANGED <<ui, chanDoc, currentChannel, connectionStatus, rpc, subscriptionActive,
                 subscriptionDocId, serverSubs, documentContent, latestDocumentContent,
                 documentDebounce, applyingRemoteDocument, messages, op, sent, events, lastEvent,
                 edits, ops>>
  /\ UNCHANGED brokerVars
  /\ dbQueue' = Push(Tail(dbQueue), ProcId(i), procs'[i].pc /= "free")
  /\ UNCHANGED <<subsVars, attrVars>>
  /\ Rerender(historyIndex)
  /\ UNCHANGED <<pendingTimers, latestEdit, restores>>

\* processCommitEvent, message path after saveMessage returned: lines 642-652.
MessageSaved(i) ==
  LET h == procs[i].hash
      p == PayloadOf(h)
      message == [commitHash |-> h, channelId |-> procs[i].channelId, user |-> p.user,
                  content |-> p.content, timestamp |-> procs[i].ts]
  IN /\ messages' = IF h \in HashesOf(messages) THEN messages
                                                ELSE InsertByTimestamp(messages, message)
     /\ processedCommitHashes' =
          IF messages' = messages THEN processedCommitHashes \cup {h}
          ELSE AfterMessagesChanged(processedCommitHashes \cup {h}, messages')
     /\ procs' = [procs EXCEPT ![i] = NoProc]

\* processCommitEvent, message path: the INSERT OR IGNORE of saveMessage.
ProcSaveMessage(i) ==
  /\ ~ContinuationReady
  /\ AtHead(ProcId(i))
  /\ procs[i].pc = "saveMessage"
  /\ LET h == procs[i].hash
         p == PayloadOf(h)
         row == [commitHash |-> h, channelId |-> procs[i].channelId, user |-> p.user,
                 content |-> p.content, timestamp |-> procs[i].ts]
     IN /\ msgRows' = InsertMessage(msgRows, row)
        /\ changes' = IF msgRows' = msgRows THEN 0 ELSE 1
  /\ IF dbMode = "direct"
       THEN MessageSaved(i)
       ELSE /\ procs' = [procs EXCEPT ![i].pc = "selectChanges"]
            /\ UNCHANGED <<messages, processedCommitHashes>>
  /\ UNCHANGED <<now, dbMode, docRows, snapshots, dbLastModified, chanLm, ing, ingests, prev>>
  /\ UNCHANGED <<ui, chanDoc, currentChannel, connectionStatus, rpc, subscriptionActive,
                 subscriptionDocId, serverSubs, documentContent, latestDocumentContent,
                 documentHistory, documentDebounce, applyingRemoteDocument, guardTimers,
                 op, sent, events, lastEvent, edits, ops>>
  /\ UNCHANGED brokerVars
  /\ dbQueue' = Push(Tail(dbQueue), ProcId(i), procs'[i].pc /= "free")
  /\ UNCHANGED pageExtra

\* processCommitEvent, message path on the worker API: `SELECT changes()`.
ProcSelectChanges(i) ==
  /\ ~ContinuationReady
  /\ AtHead(ProcId(i))
  /\ procs[i].pc = "selectChanges"
  /\ MessageSaved(i)
  /\ UNCHANGED storeVars
  /\ UNCHANGED <<ui, chanDoc, currentChannel, connectionStatus, rpc, subscriptionActive,
                 subscriptionDocId, serverSubs, documentContent, latestDocumentContent,
                 documentHistory, documentDebounce, applyingRemoteDocument, guardTimers,
                 op, sent, events, lastEvent, edits, ops>>
  /\ UNCHANGED brokerVars
  /\ dbQueue' = Push(Tail(dbQueue), ProcId(i), procs'[i].pc /= "free")
  /\ UNCHANGED pageExtra

\* The setTimeout(0) callback: applyingRemoteDocument = false.
GuardTimerFires ==
  /\ Quiescent
  /\ guardTimers > 0
  /\ guardTimers' = guardTimers - 1
  /\ applyingRemoteDocument' = FALSE
  /\ UNCHANGED <<ui, chanDoc, currentChannel, connectionStatus, rpc, subscriptionActive,
                 subscriptionDocId, serverSubs, documentContent, latestDocumentContent,
                 documentHistory, documentDebounce, messages, processedCommitHashes,
                 procs, op, sent, events, lastEvent, edits, ops>>
  /\ UNCHANGED <<brokerVars, storeVars>>
  /\ UNCHANGED dbQueue
  /\ UNCHANGED pageExtra

\* handleDocumentInput: the user types; the editor is enabled by canEditDocument.
HandleDocumentInput(value) ==
  /\ Quiescent
  /\ ~IsTimeTravelMode
  /\ connectionStatus = "connected"
  /\ rpc = "open"
  /\ edits' = edits + 1
  /\ documentContent' = value
  /\ documentDebounce' =
       IF GuardBlocks(applyingRemoteDocument) THEN documentDebounce
       ELSE [armed |-> TRUE, content |-> value, editedIn |-> currentChannel.id,
             closure |-> currentChannel, by |-> "edit"]
  /\ UNCHANGED <<ui, chanDoc, currentChannel, connectionStatus, rpc, subscriptionActive,
                 subscriptionDocId, serverSubs, latestDocumentContent, documentHistory,
                 applyingRemoteDocument, guardTimers, messages, processedCommitHashes,
                 procs, op, sent, events, lastEvent, ops>>
  /\ UNCHANGED <<brokerVars, storeVars>>
  /\ UNCHANGED dbQueue
  /\ UNCHANGED <<subsVars, attrVars>>
  /\ Rerender(historyIndex)
  /\ pendingTimers' = IF GuardBlocks(applyingRemoteDocument) THEN pendingTimers
                        ELSE SetTimeout(ClearTimeout(pendingTimers, documentDebounce))
  /\ latestEdit' = value
  /\ UNCHANGED restores

\* The channel sendDocumentUpdate reads: the page variable when the timer fires
\* (+page.svelte), the state captured by the render that scheduled it (App.tsx).
ChannelAtFire == IF ui = "react" THEN documentDebounce.closure ELSE currentChannel

\* The 500 ms timer of scheduleDocumentSync fires: sendDocumentUpdate(content).
DebounceFires ==
  /\ Quiescent
  /\ documentDebounce.armed
  /\ documentDebounce' = NoTimer
  /\ sent' = IF ChannelAtFire = NoChannel \/ rpc = "null" THEN sent
             ELSE sent \cup {[channel |-> ChannelAtFire.id, docId |-> ChannelAtFire.docId,
                              content |-> documentDebounce.content,
                              editedIn |-> documentDebounce.editedIn]}
  /\ UNCHANGED <<ui, chanDoc, currentChannel, connectionStatus, rpc, subscriptionActive,
                 subscriptionDocId, serverSubs, documentContent, latestDocumentContent,
                 documentHistory, applyingRemoteDocument, guardTimers, messages,
                 processedCommitHashes, procs, op, events, lastEvent, edits, ops>>
  /\ UNCHANGED <<brokerVars, storeVars>>
  /\ UNCHANGED dbQueue
  /\ UNCHANGED <<subsVars, attrVars>>
  /\ pendingTimers' = pendingTimers - 1
  /\ UNCHANGED <<historyIndex, charAttribution, latestEdit, restores>>

\* handleHistorySliderChange without the `boundedIndex >= length - 1` branch.
HandleHistorySliderChangeKeepsLast(nextIndex) ==
  /\ Quiescent
  /\ Len(documentHistory) > 0
  /\ historyIndex' = At(BoundedIndex(nextIndex, Len(documentHistory)))
  /\ charAttribution' =
       ReactiveAttribution(NoRestore, documentHistory, documentContent, historyIndex')
  /\ UNCHANGED <<pendingTimers, latestEdit, restores>>
  /\ UNCHANGED <<subsVars, attrVars>>
  /\ UNCHANGED <<brokerVars, storeVars, uiVars, dbQueue>>

\* handleHistorySliderChange(nextIndex): the user moves the history slider.
HandleHistorySliderChange(nextIndex) ==
  /\ Quiescent
  /\ Len(documentHistory) > 0
  /\ LET boundedIndex == BoundedIndex(nextIndex, Len(documentHistory))
     IN historyIndex' = ClampIndex(IF boundedIndex >= Len(documentHistory) - 1
                                     THEN NullIndex ELSE At(boundedIndex),
                                   documentHistory)
  /\ charAttribution' =
       IF historyIndex' = historyIndex
         THEN charAttribution  \* an assignment of the same value invalidates nothing
         ELSE ReactiveAttribution(NoRestore, documentHistory, documentContent, historyIndex')
  /\ UNCHANGED <<pendingTimers, latestEdit, restores>>
  /\ UNCHANGED <<subsVars, attrVars>>
  /\ UNCHANGED <<brokerVars, storeVars, uiVars, dbQueue>>

\* handleRestoreVersion: the user clicks "Restore this version", shown in
\* time-travel mode.
HandleRestoreVersion ==
  /\ Quiescent
  /\ IsTimeTravelMode
  /\ historyIndex[1] \in 0..(Len(documentHistory) - 1)
  /\ LET k == historyIndex[1]
         entry == documentHistory[k + 1]
         subset == RestoreSubset(documentHistory, k)
         restoreAttribution ==
           [set |-> TRUE, value |-> computeCharAttribution(EntriesOf(subset))]
     IN /\ documentHistory' = HistoryAfterRestore(documentHistory, k)
        /\ historyIndex' = ClampIndex(NullIndex, documentHistory')
        /\ documentContent' = entry.content
        /\ latestDocumentContent' = entry.content
        /\ documentDebounce' = [armed |-> TRUE, content |-> entry.content,
                                editedIn |-> currentChannel.id, closure |-> currentChannel,
                                by |-> "restore"]
        /\ charAttribution' =
             ReactiveAttribution(restoreAttribution, documentHistory', documentContent',
                                 historyIndex')
        /\ latestEdit' = entry.content
  /\ pendingTimers' = SetTimeout(ClearTimeout(pendingTimers, documentDebounce))
  /\ restores' = restores + 1
  /\ UNCHANGED <<ui, chanDoc, currentChannel, connectionStatus, rpc, subscriptionActive,
                 subscriptionDocId, serverSubs, applyingRemoteDocument, guardTimers, messages,
                 processedCommitHashes, procs, op, sent, events, lastEvent, edits, ops>>
  /\ UNCHANGED <<subsVars, attrVars>>
  /\ UNCHANGED <<brokerVars, storeVars>>
  /\ UNCHANGED dbQueue

EditorIdle ==
  /\ historyIndex = NullIndex
  /\ charAttribution = <<>>
  /\ pendingTimers = 0
  /\ latestEdit = ""
  /\ restores = 0

(***************************************************************************)
(* Channel sessions: selectChannel, joinChannelByAddress, leaveChannel.    *)
(***************************************************************************)
Preloads == {<<"i0">>, <<"i0", "m1", "m1", "d1">>}
JoinAddress == "W"
NewDocId(c) == "Z"
IsTemp(docId) == docId = "temp"

\* selectChannel lines 777-805: the session is reset and a new RPC session is
\* opened; the call waits for the handshake.
EnterChannel(channel) ==
  /\ currentChannel' = channel
  /\ documentContent' = ""
  /\ latestDocumentContent' = ""
  /\ documentHistory' = <<>>
  /\ historyIndex' = NullIndex
  /\ charAttribution' = <<>>
  /\ connectionStatus' = "connecting"
  /\ rpc' = "open"
  /\ op' = [NoOp EXCEPT !.pc = "hello", !.channel = channel, !.active = channel]

\* selectChannel(channel) from its first line: unsubscribeFromRpc when a
\* subscription is active, then EnterChannel.
BeginSelect(channel) ==
  IF subscriptionActive /\ rpc = "open"
    THEN /\ op' = [NoOp EXCEPT !.pc = "unsubscribing", !.channel = channel]
         /\ UNCHANGED <<currentChannel, documentContent, latestDocumentContent,
                        documentHistory, connectionStatus, rpc, subscriptionActive,
                        subscriptionDocId, historyIndex, charAttribution>>
    ELSE /\ EnterChannel(channel)
         /\ subscriptionActive' = FALSE
         /\ subscriptionDocId' = IF subscriptionActive THEN "none" ELSE subscriptionDocId

\* The user picks a channel of the list.
SelectChannel(c) ==
  /\ Quiescent
  /\ op.pc = "idle"
  /\ ops < MaxOps
  /\ chanDoc[c] /= "none"
  /\ ops' = ops + 1
  /\ BeginSelect([id |-> c, docId |-> chanDoc[c]])
  /\ UNCHANGED <<ui, chanDoc, serverSubs, documentDebounce, applyingRemoteDocument,
                 guardTimers, messages, processedCommitHashes, procs, sent, events, lastEvent, edits>>
  /\ UNCHANGED <<brokerVars, storeVars>>
  /\ UNCHANGED dbQueue
  /\ UNCHANGED <<subsVars, attrVars>>
  /\ UNCHANGED <<pendingTimers, latestEdit, restores>>

\* unsubscribeFromRpc inside selectChannel: rpc.unregisterClientTarget settles.
SelUnsubscribed(ok) ==
  /\ Quiescent
  /\ op.pc = "unsubscribing"
  /\ serverSubs' = IF ok THEN serverSubs \ {subscriptionDocId} ELSE serverSubs
  /\ subscriptionActive' = FALSE
  /\ subscriptionDocId' = "none"
  /\ EnterChannel(op.channel)
  /\ UNCHANGED <<ui, chanDoc, documentDebounce, applyingRemoteDocument, guardTimers,
                 messages, processedCommitHashes, procs, sent, events, lastEvent, edits, ops>>
  /\ UNCHANGED <<brokerVars, storeVars>>
  /\ UNCHANGED dbQueue
  /\ UNCHANGED <<subsVars, attrVars>>
  /\ UNCHANGED <<pendingTimers, latestEdit, restores>>

\* newRpc.hello settles: lines 804-815, 828.
SelHello(ok) ==
  /\ Quiescent
  /\ op.pc = "hello"
  /\ IF ok
       THEN /\ op' = [op EXCEPT !.pc = IF IsTemp(op.channel.docId) THEN "createDoc"
                                                                     ELSE "loadDocument"]
            /\ UNCHANGED connectionStatus
       ELSE /\ op' = NoOp
            /\ connectionStatus' = "error"
  /\ UNCHANGED <<ui, chanDoc, currentChannel, rpc, subscriptionActive, subscriptionDocId,
                 serverSubs, documentContent, latestDocumentContent, documentHistory,
                 documentDebounce, applyingRemoteDocument, guardTimers, messages,
                 processedCommitHashes, procs, sent, events, lastEvent, edits, ops>>
  /\ UNCHANGED <<brokerVars, storeVars>>
  /\ UNCHANGED dbQueue
  /\ UNCHANGED pageExtra

\* newRpc.loadDocument settles: lines 829-831, 846.
SelLoadDocument(ok, list) ==
  /\ Quiescent
  /\ op.pc = "loadDocument"
  /\ IF ok
       THEN /\ op' = [op EXCEPT !.pc = "getDocument", !.preload = list]
            /\ connectionStatus' = "connected"
       ELSE /\ op' = [op EXCEPT !.pc = "createDoc"]
            /\ UNCHANGED connectionStatus
  /\ UNCHANGED <<ui, chanDoc, currentChannel, rpc, subscriptionActive, subscriptionDocId,
                 serverSubs, documentContent, latestDocumentContent, documentHistory,
                 documentDebounce, applyingRemoteDocument, guardTimers, messages,
                 processedCommitHashes, procs, sent, events, lastEvent, edits, ops>>
  /\ UNCHANGED <<brokerVars, storeVars>>
  /\ dbQueue' = Push(dbQueue, OpId, ok)
  /\ UNCHANGED pageExtra

\* createCommit and newRpc.createDoc settle: lines 816-821 and 831-836.
SelCreateDoc(ok) ==
  /\ Quiescent
  /\ op.pc = "createDoc"
  /\ IF ok
       THEN /\ op' = [op EXCEPT !.pc = "updateDocId"]
            /\ UNCHANGED connectionStatus
       ELSE /\ op' = NoOp
            /\ connectionStatus' = "error"
  /\ UNCHANGED <<ui, chanDoc, currentChannel, rpc, subscriptionActive, subscriptionDocId,
                 serverSubs, documentContent, latestDocumentContent, documentHistory,
                 documentDebounce, applyingRemoteDocument, guardTimers, messages,
                 processedCommitHashes, procs, sent, events, lastEvent, edits, ops>>
  /\ UNCHANGED <<brokerVars, storeVars>>
  /\ dbQueue' = Push(dbQueue, OpId, ok)
  /\ UNCHANGED pageExtra

\* sqliteService.updateChannelDocId completes: lines 822-826 and 837-846.
SelUpdateDocId ==
  /\ ~ContinuationReady
  /\ AtHead(OpId)
  /\ op.pc = "updateDocId"
  /\ LET c == op.channel.id
         activeChannel == [id |-> c, docId |-> NewDocId(c)]
     IN /\ dbLastModified' = [dbLastModified EXCEPT ![c] = now]
        /\ changes' = 1
        /\ chanDoc' = [chanDoc EXCEPT ![c] = NewDocId(c)]
        /\ currentChannel' = activeChannel
        /\ op' = [op EXCEPT !.pc = "getDocument", !.active = activeChannel, !.preload = <<>>]
  /\ connectionStatus' = "connected"
  /\ UNCHANGED <<now, dbMode, msgRows, docRows, snapshots, chanLm, ing, ingests, prev>>
  /\ UNCHANGED <<ui, rpc, subscriptionActive, subscriptionDocId, serverSubs,
                 documentContent, latestDocumentContent, documentHistory, documentDebounce,
                 applyingRemoteDocument, guardTimers, messages, processedCommitHashes,
                 procs, sent, events, lastEvent, edits, ops>>
  /\ UNCHANGED brokerVars
  /\ dbQueue' = Append(Tail(dbQueue), OpId)
  /\ UNCHANGED pageExtra

\* sqliteService.getChannelDocument completes: lines 849 and 861.
SelGetDocument ==
  /\ ~ContinuationReady
  /\ AtHead(OpId)
  /\ op.pc = "getDocument"
  /\ op' = [op EXCEPT !.pc = "getCommits", !.stored = snapshots[op.active.id]]
  /\ UNCHANGED <<ui, chanDoc, currentChannel, connectionStatus, rpc, subscriptionActive,
                 subscriptionDocId, serverSubs, documentContent, latestDocumentContent,
                 documentHistory, documentDebounce, applyingRemoteDocument, guardTimers,
                 messages, processedCommitHashes, procs, sent, events, lastEvent, edits, ops>>
  /\ UNCHANGED <<brokerVars, storeVars>>
  /\ dbQueue' = Append(Tail(dbQueue), OpId)
  /\ UNCHANGED pageExtra

\* sqliteService.getChannelDocumentCommits completes: lines 850-854 and 862-865.
SelGetCommits ==
  /\ ~ContinuationReady
  /\ AtHead(OpId)
  /\ op.pc = "getCommits"
  /\ LET rows == {r \in docRows : r.channelId = op.active.id}
         hydrate == ~op.hydrated /\ op.stored = NoSnapshot /\ op.preload /= <<>>
     IN /\ op' = [op EXCEPT !.history = rows,
                            !.pc = IF hydrate THEN "hydrating" ELSE "getMessages"]
        /\ ing' = IF hydrate
                    THEN StartIngest(op.active.id, chanLm[op.active.id], op.preload)
                    ELSE ing
  /\ UNCHANGED <<now, dbMode, msgRows, docRows, snapshots, dbLastModified, changes,
                 chanLm, ingests, prev>>
  /\ UNCHANGED <<ui, chanDoc, currentChannel, connectionStatus, rpc, subscriptionActive,
                 subscriptionDocId, serverSubs, documentContent, latestDocumentContent,
                 documentHistory, documentDebounce, applyingRemoteDocument, guardTimers,
                 messages, processedCommitHashes, procs, sent, events, lastEvent, edits, ops>>
  /\ UNCHANGED brokerVars
  /\ dbQueue' = IF op'.pc = "hydrating"
                  THEN Push(Tail(dbQueue), IngId, StorePending(ing'.pc))
                  ELSE Append(Tail(dbQueue), OpId)
  /\ UNCHANGED pageExtra

\* persistCommitsForChannel returned or threw inside selectChannel: lines 855-860.
SelHydrated ==
  /\ op.pc = "hydrating"
  /\ ing.pc \in {"done", "threw"}
  /\ IF ing.pc = "done"
       THEN /\ op' = [op EXCEPT !.pc = "getDocument", !.hydrated = TRUE]
            /\ chanLm' = IF ing.messageCount > 0 \/ ing.documentCount > 0
                           THEN [chanLm EXCEPT ![op.active.id] = ing.latestActivity]
                           ELSE chanLm
            /\ UNCHANGED connectionStatus
       ELSE /\ op' = NoOp
            /\ connectionStatus' = "error"
            /\ UNCHANGED chanLm
  /\ UNCHANGED <<now, dbMode, msgRows, docRows, snapshots, dbLastModified, changes,
                 ing, ingests, prev>>
  /\ UNCHANGED <<ui, chanDoc, currentChannel, rpc, subscriptionActive, subscriptionDocId,
                 serverSubs, documentContent, latestDocumentContent, documentHistory,
                 documentDebounce, applyingRemoteDocument, guardTimers, messages,
                 processedCommitHashes, procs, sent, events, lastEvent, edits, ops>>
  /\ UNCHANGED brokerVars
  /\ dbQueue' = Push(dbQueue, OpId, ing.pc = "done")
  /\ UNCHANGED pageExtra

\* sqliteService.getMessagesForChannel completes: lines 865-893, up to the
\* registerClientTarget call of subscribeToRpc.
SelGetMessages ==
  /\ ~ContinuationReady
  /\ AtHead(OpId)
  /\ op.pc = "getMessages"
  /\ LET channelMessages == SortByTimestamp({r \in msgRows : r.channelId = op.active.id})
         mappedHistory ==
           SortByTimestamp({[commitHash |-> r.commitHash, user |-> UserOf([user |-> r.user]),
                             content |-> r.content, timestamp |-> r.timestamp] :
                            r \in op.history})
     IN /\ messages' = channelMessages
        /\ processedCommitHashes' =
             AfterMessagesChanged(HashesOf(channelMessages) \cup HashesOf(mappedHistory),
                                  channelMessages)
        /\ documentHistory' = mappedHistory
        /\ documentContent' = IF op.stored = NoSnapshot THEN "" ELSE op.stored.content
        /\ latestDocumentContent' = documentContent'
  /\ applyingRemoteDocument' = TRUE
  /\ guardTimers' = IF guardTimers < MaxProcs THEN guardTimers + 1 ELSE guardTimers
  /\ op' = IF subscriptionActive /\ subscriptionDocId = op.active.docId
             THEN NoOp ELSE [op EXCEPT !.pc = "subscribing"]
  /\ UNCHANGED <<ui, chanDoc, currentChannel, connectionStatus, rpc, subscriptionActive,
                 subscriptionDocId, serverSubs, documentDebounce, procs, sent, events, lastEvent,
                 edits, ops>>
  /\ UNCHANGED <<brokerVars, storeVars>>
  /\ dbQueue' = Tail(dbQueue)
  /\ UNCHANGED <<subsVars, attrVars>>
  /\ Rerender(NullIndex)
  /\ UNCHANGED <<pendingTimers, latestEdit, restores>>

\* subscribeToRpc: rpc.registerClientTarget settles.
SelSubscribed(ok) ==
  /\ Quiescent
  /\ op.pc = "subscribing"
  /\ subscriptionActive' = ok
  /\ subscriptionDocId' = IF ok THEN op.active.docId ELSE "none"
  /\ serverSubs' = IF ok THEN serverSubs \cup {op.active.docId} ELSE serverSubs
  /\ op' = NoOp
  /\ UNCHANGED <<ui, chanDoc, currentChannel, connectionStatus, rpc, documentContent,
                 latestDocumentContent, documentHistory, documentDebounce,
                 applyingRemoteDocument, guardTimers, messages, processedCommitHashes,
                 procs, sent, events, lastEvent, edits, ops>>
  /\ UNCHANGED <<brokerVars, storeVars>>
  /\ UNCHANGED dbQueue
  /\ UNCHANGED pageExtra

\* leaveChannel after unsubscribeFromRpc: lines 1096-1119.
LeaveRest ==
  /\ rpc' = "null"
  /\ currentChannel' = NoChannel
  /\ messages' = <<>>
  /\ processedCommitHashes' = {}
  /\ connectionStatus' = "disconnected"
  /\ documentContent' = ""
  /\ latestDocumentContent' = ""
  /\ documentHistory' = <<>>
  /\ documentDebounce' = NoTimer
  /\ pendingTimers' = ClearTimeout(pendingTimers, documentDebounce)
  /\ historyIndex' = NullIndex
  /\ charAttribution' = <<>>
  /\ subscriptionActive' = FALSE
  /\ subscriptionDocId' = "none"
  /\ op' = NoOp

\* The user leaves the channel.
LeaveChannel ==
  /\ Quiescent
  /\ op.pc = "idle"
  /\ ops < MaxOps
  /\ currentChannel /= NoChannel
  /\ ops' = ops + 1
  /\ IF subscriptionActive /\ rpc = "open"
       THEN /\ op' = [NoOp EXCEPT !.pc = "leaving"]
            /\ UNCHANGED <<rpc, currentChannel, messages, processedCommitHashes,
                           connectionStatus, documentContent, latestDocumentContent,
                           documentHistory, documentDebounce, subscriptionActive,
                           subscriptionDocId, pendingTimers, historyIndex, charAttribution>>
       ELSE LeaveRest
  /\ UNCHANGED <<ui, chanDoc, serverSubs, applyingRemoteDocument, guardTimers, procs,
                 sent, events, lastEvent, edits>>
  /\ UNCHANGED <<brokerVars, storeVars>>
  /\ UNCHANGED dbQueue
  /\ UNCHANGED <<subsVars, attrVars>>
  /\ UNCHANGED <<latestEdit, restores>>

\* unsubscribeFromRpc inside leaveChannel: rpc.unregisterClientTarget settles.
LeaveUnsubscribed(ok) ==
  /\ Quiescent
  /\ op.pc = "leaving"
  /\ serverSubs' = IF ok THEN serverSubs \ {subscriptionDocId} ELSE serverSubs
  /\ LeaveRest
  /\ UNCHANGED <<ui, chanDoc, applyingRemoteDocument, guardTimers, procs, sent, events, lastEvent,
                 edits, ops>>
  /\ UNCHANGED <<brokerVars, storeVars>>
  /\ UNCHANGED dbQueue
  /\ UNCHANGED <<subsVars, attrVars>>
  /\ UNCHANGED <<latestEdit, restores>>

\* joinChannelByAddress(address): an address of the list selects its channel,
\* another one is looked up on a temporary RPC session.
JoinChannelByAddress(address) ==
  /\ Quiescent
  /\ op.pc = "idle"
  /\ ops < MaxOps
  /\ ops' = ops + 1
  /\ IF \E c \in Channels : chanDoc[c] = address
       THEN LET c == CHOOSE k \in Channels : chanDoc[k] = address
            IN BeginSelect([id |-> c, docId |-> address])
       ELSE /\ op' = [NoOp EXCEPT !.pc = "joinLoad",
                                  !.channel = [id |-> "C", docId |-> address]]
            /\ UNCHANGED <<currentChannel, documentContent, latestDocumentContent,
                           documentHistory, connectionStatus, rpc, subscriptionActive,
                           subscriptionDocId, historyIndex, charAttribution>>
  /\ UNCHANGED <<ui, chanDoc, serverSubs, documentDebounce, applyingRemoteDocument,
                 guardTimers, messages, processedCommitHashes, procs, sent, events, lastEvent, edits>>
  /\ UNCHANGED <<brokerVars, storeVars>>
  /\ UNCHANGED dbQueue
  /\ UNCHANGED <<subsVars, attrVars>>
  /\ UNCHANGED <<pendingTimers, latestEdit, restores>>

\* tempRpc.hello and tempRpc.loadDocument settle, createChannel is called:
\* lines 731-751.
JoinLoaded(ok, list) ==
  /\ Quiescent
  /\ op.pc = "joinLoad"
  /\ op' = IF ok /\ list /= <<>>
             THEN [op EXCEPT !.pc = "joinCreate", !.preload = list, !.createdAt = now]
             ELSE NoOp
  /\ UNCHANGED <<ui, chanDoc, currentChannel, connectionStatus, rpc, subscriptionActive,
                 subscriptionDocId, serverSubs, documentContent, latestDocumentContent,
                 documentHistory, documentDebounce, applyingRemoteDocument, guardTimers,
                 messages, processedCommitHashes, procs, sent, events, lastEvent, edits, ops>>
  /\ UNCHANGED <<brokerVars, storeVars>>
  /\ dbQueue' = Push(dbQueue, OpId, op'.pc = "joinCreate")
  /\ UNCHANGED pageExtra

\* sqliteService.createChannel(name, address) completes; persistCommitsForChannel
\* is called with the new channel: lines 751-752.
JoinCreated ==
  /\ ~ContinuationReady
  /\ AtHead(OpId)
  /\ op.pc = "joinCreate"
  /\ dbLastModified' = [dbLastModified EXCEPT ![op.channel.id] = op.createdAt]
  /\ changes' = 1
  /\ ing' = StartIngest(op.channel.id, op.createdAt, op.preload)
  /\ op' = [op EXCEPT !.pc = "joinIngest"]
  /\ UNCHANGED <<now, dbMode, msgRows, docRows, snapshots, chanLm, ingests, prev>>
  /\ UNCHANGED <<ui, chanDoc, currentChannel, connectionStatus, rpc, subscriptionActive,
                 subscriptionDocId, serverSubs, documentContent, latestDocumentContent,
                 documentHistory, documentDebounce, applyingRemoteDocument, guardTimers,
                 messages, processedCommitHashes, procs, sent, events, lastEvent, edits, ops>>
  /\ UNCHANGED brokerVars
  /\ dbQueue' = Push(Tail(dbQueue), IngId, StorePending(ing'.pc))
  /\ UNCHANGED pageExtra

\* persistCommitsForChannel returned or threw inside joinChannelByAddress:
\* lines 754-768; a returned call goes on to selectChannel(hydratedChannel).
JoinIngested ==
  /\ op.pc = "joinIngest"
  /\ ing.pc \in {"done", "threw"}
  /\ IF ing.pc = "done"
       THEN /\ chanDoc' = [chanDoc EXCEPT ![op.channel.id] = op.channel.docId]
            /\ chanLm' = [chanLm EXCEPT ![op.channel.id] = ing.latestActivity]
            /\ BeginSelect(op.channel)
       ELSE /\ op' = NoOp
            /\ UNCHANGED <<chanDoc, chanLm, currentChannel, documentContent,
                           latestDocumentContent, documentHistory, connectionStatus, rpc,
                           subscriptionActive, subscriptionDocId, historyIndex,
                           charAttribution>>
  /\ UNCHANGED <<now, dbMode, msgRows, docRows, snapshots, dbLastModified, changes,
                 ing, ingests, prev>>
  /\ UNCHANGED <<ui, serverSubs, documentDebounce, applyingRemoteDocument, guardTimers,
                 messages, processedCommitHashes, procs, sent, events, lastEvent, edits, ops>>
  /\ UNCHANGED brokerVars
  /\ UNCHANGED dbQueue
  /\ UNCHANGED <<subsVars, attrVars>>
  /\ UNCHANGED <<pendingTimers, latestEdit, restores>>

UiInit ==
  /\ ui \in {"svelte", "react"}
  /\ chanDoc = [c \in Channels |-> IF c = "A" THEN "X" ELSE IF c = "B" THEN "Y" ELSE "none"]
  /\ currentChannel = NoChannel
  /\ connectionStatus = "disconnected"
  /\ rpc = "null"
  /\ subscriptionActive = FALSE
  /\ subscriptionDocId = "none"
  /\ serverSubs = {}
  /\ documentContent = ""
  /\ latestDocumentContent = ""
  /\ documentHistory = <<>>
  /\ documentDebounce = NoTimer
  /\ applyingRemoteDocument = FALSE
  /\ guardTimers = 0
  /\ messages = <<>>
  /\ processedCommitHashes = {}
  /\ procs = [i \in ProcIds |-> NoProc]
  /\ op = NoOp
  /\ sent = {}
  /\ events = 0
  /\ lastEvent = "none"
  /\ edits = 0
  /\ ops = 0

(***************************************************************************)
(* Overlapping channel calls of one page and the registrations they leave  *)
(* at the service.  The awaits of selectChannel between the handshake and  *)
(* subscribeToRpc touch no subscription state and are taken as one.        *)
(***************************************************************************)
MaxCalls == 2
MaxSubsOps == 3
CallIds == 1..MaxCalls
NoCall == [pc |-> "idle", channel |-> NoChannel, session |-> 0]

\* A call sent on a session reaches the service after the calls sent on that
\* session before it.
Deliverable(i) == \A j \in 1..(i - 1) : wire[j].session /= wire[i].session

\* The calls of page call k that the service has not handled yet.
Unhandled(k) == {i \in 1..Len(wire) : wire[i].call = k}
WithoutCall(k) == SelectSeq(wire, LAMBDA m : m.call /= k)

\* unsubscribeFromRpc sends unregisterClientTarget: lines 510-517.
Unsubscribes == subscriptionActive /\ rpcSession /= 0

\* selectChannel lines 777-805: currentChannel is assigned, a new RPC session
\* is opened and stored in `rpc`, the call waits for the handshake.
SubsEnter(k, channel) ==
  /\ sessions < MaxSessions
  /\ sessions' = sessions + 1
  /\ rpcSession' = sessions + 1
  /\ rpc' = "open"
  /\ currentChannel' = channel
  /\ connectionStatus' = "connecting"
  /\ calls' = [calls EXCEPT ![k] = [pc |-> "connecting", channel |-> channel,
                                     session |-> sessions + 1]]

\* leaveChannel after unsubscribeFromRpc: lines 1096-1119.
SubsLeaveRest(k) ==
  /\ disposed' = IF rpcSession /= 0 THEN disposed \cup {rpcSession} ELSE disposed
  /\ rpcSession' = 0
  /\ rpc' = "null"
  /\ currentChannel' = NoChannel
  /\ connectionStatus' = "disconnected"
  /\ calls' = [calls EXCEPT ![k] = NoCall]

\* The user picks channel c while call frame k is free.
SubsSelect(k, c) ==
  /\ calls[k].pc = "idle"
  /\ ops < MaxSubsOps
  /\ ops' = ops + 1
  /\ chanDoc[c] /= "none"
  /\ LET channel == [id |-> c, docId |-> chanDoc[c]]
     IN IF subscriptionActive
          THEN IF Unsubscribes
                 THEN /\ wire' = Append(wire, [call |-> k, session |-> rpcSession,
                                               kind |-> "unregister",
                                               docId |-> subscriptionDocId])
                      /\ calls' = [calls EXCEPT ![k] =
                                     [pc |-> "unsubscribing", channel |-> channel,
                                      session |-> rpcSession]]
                      /\ UNCHANGED <<subscriptionActive, subscriptionDocId, sessions,
                                     rpcSession, rpc, currentChannel, connectionStatus>>
                 ELSE /\ subscriptionActive' = FALSE
                      /\ subscriptionDocId' = "none"
                      /\ SubsEnter(k, channel)
                      /\ UNCHANGED wire
          ELSE /\ SubsEnter(k, channel)
               /\ UNCHANGED <<subscriptionActive, subscriptionDocId, wire>>
  /\ UNCHANGED disposed
  /\ UNCHANGED <<ui, chanDoc, serverSubs, documentContent, latestDocumentContent,
                 documentHistory, documentDebounce, applyingRemoteDocument, guardTimers,
                 messages, processedCommitHashes, procs, op, sent, events, lastEvent, edits>>
  /\ UNCHANGED <<brokerVars, storeVars, dbQueue, attrVars, editorVars>>

\* The user leaves the channel while call frame k is free.
SubsLeave(k) ==
  /\ calls[k].pc = "idle"
  /\ ops < MaxSubsOps
  /\ ops' = ops + 1
  /\ currentChannel /= NoChannel
  /\ IF Unsubscribes
       THEN /\ wire' = Append(wire, [call |-> k, session |-> rpcSession,
                                     kind |-> "unregister", docId |-> subscriptionDocId])
            /\ calls' = [calls EXCEPT ![k] = [pc |-> "leaving", channel |-> NoChannel,
                                               session |-> rpcSession]]
            /\ UNCHANGED <<subscriptionActive, subscriptionDocId, disposed, rpcSession,
                           rpc, currentChannel, connectionStatus>>
       ELSE /\ subscriptionActive' = FALSE
            /\ subscriptionDocId' = "none"
            /\ SubsLeaveRest(k)
            /\ UNCHANGED wire
  /\ UNCHANGED sessions
  /\ UNCHANGED <<ui, chanDoc, serverSubs, documentContent, latestDocumentContent,
                 documentHistory, documentDebounce, applyingRemoteDocument, guardTimers,
                 messages, processedCommitHashes, procs, op, sent, events, lastEvent, edits>>
  /\ UNCHANGED <<brokerVars, storeVars, dbQueue, attrVars, editorVars>>

\* rpc.unregisterClientTarget settles for call k (it was handled, or its
\* session was disposed): unsubscribeFromRpc lines 518-524, then the caller
\* goes on.
SubsUnsubscribed(k) ==
  /\ calls[k].pc \in {"unsubscribing", "leaving"}
  /\ Unhandled(k) = {} \/ calls[k].session \in disposed
  /\ wire' = WithoutCall(k)
  /\ subscriptionActive' = FALSE
  /\ subscriptionDocId' = "none"
  /\ IF calls[k].pc = "leaving"
       THEN SubsLeaveRest(k) /\ UNCHANGED sessions
       ELSE SubsEnter(k, calls[k].channel) /\ UNCHANGED disposed
  /\ UNCHANGED <<ops, ui, chanDoc, serverSubs, documentContent, latestDocumentContent,
                 documentHistory, documentDebounce, applyingRemoteDocument, guardTimers,
                 messages, processedCommitHashes, procs, op, sent, events, lastEvent, edits>>
  /\ UNCHANGED <<brokerVars, storeVars, dbQueue, attrVars, editorVars>>

\* The handshake and the loading of call k settle (lines 804-893) and the
\* call reaches subscribeToRpc(activeChannel.docId): lines 486-498.  A
\* failure is caught at lines 894-897.
SubsConnected(k, ok) ==
  /\ calls[k].pc = "connecting"
  /\ ok \/ calls[k].session \notin disposed
  /\ IF ~ok \/ calls[k].session \in disposed
       THEN /\ connectionStatus' = "error"
            /\ calls' = [calls EXCEPT ![k] = NoCall]
            /\ UNCHANGED wire
       ELSE /\ connectionStatus' = "connected"
            /\ IF rpcSession = 0
                    \/ (subscriptionActive /\ subscriptionDocId = calls[k].channel.docId)
                 THEN /\ calls' = [calls EXCEPT ![k] = NoCall]
                      /\ UNCHANGED wire
                 ELSE /\ wire' = Append(wire, [call |-> k, session |-> rpcSession,
                                               kind |-> "register",
                                               docId |-> calls[k].channel.docId])
                      /\ calls' = [calls EXCEPT ![k] = [@ EXCEPT !.pc = "subscribing",
                                                                 !.session = rpcSession]]
  /\ UNCHANGED <<rpcSession, sessions, disposed, subscriptionActive, subscriptionDocId,
                 rpc, currentChannel>>
  /\ UNCHANGED <<ops, ui, chanDoc, serverSubs, documentContent, latestDocumentContent,
                 documentHistory, documentDebounce, applyingRemoteDocument, guardTimers,
                 messages, processedCommitHashes, procs, op, sent, events, lastEvent, edits>>
  /\ UNCHANGED <<brokerVars, storeVars, dbQueue, attrVars, editorVars>>

\* rpc.registerClientTarget settles for call k: subscribeToRpc lines 499-506.
\* It resolves once the service has handled it and rejects when its session
\* was disposed first.
SubsSubscribed(k) ==
  /\ calls[k].pc = "subscribing"
  /\ Unhandled(k) = {} \/ calls[k].session \in disposed
  /\ wire' = WithoutCall(k)
  /\ subscriptionActive' = (Unhandled(k) = {})
  /\ subscriptionDocId' = IF Unhandled(k) = {} THEN calls[k].channel.docId ELSE "none"
  /\ calls' = [calls EXCEPT ![k] = NoCall]
  /\ UNCHANGED <<rpcSession, sessions, disposed, rpc, currentChannel, connectionStatus>>
  /\ UNCHANGED <<ops, ui, chanDoc, serverSubs, documentContent, latestDocumentContent,
                 documentHistory, documentDebounce, applyingRemoteDocument, guardTimers,
                 messages, processedCommitHashes, procs, op, sent, events, lastEvent, edits>>
  /\ UNCHANGED <<brokerVars, storeVars, dbQueue, attrVars, editorVars>>

\* The service handles a registerClientTarget call of the page.
SubsBrokerRegisters(i) ==
  /\ i \in 1..Len(wire)
  /\ Deliverable(i)
  /\ wire[i].kind = "register"
  /\ Registers(PageStub(wire[i].session), wire[i].docId)
  /\ wire' = RemoveAt(wire, i)
  /\ UNCHANGED <<rpcSession, sessions, disposed, calls>>
  /\ UNCHANGED <<storeVars, uiVars, dbQueue, attrVars, editorVars>>

\* The service handles an unregisterClientTarget call of the page.
SubsBrokerUnregisters(i) ==
  /\ i \in 1..Len(wire)
  /\ Deliverable(i)
  /\ wire[i].kind = "unregister"
  /\ Unregisters(PageStub(wire[i].session), wire[i].docId)
  /\ wire' = RemoveAt(wire, i)
  /\ UNCHANGED <<rpcSession, sessions, disposed, calls>>
  /\ UNCHANGED <<storeVars, uiVars, dbQueue, attrVars, editorVars>>

\* The service notices that a session the page disposed is gone.
SubsSessionBroken(n) ==
  /\ n \in disposed
  /\ RpcBroken(SessionConn(n))

SubsInit ==
  /\ rpcSession = 0
  /\ sessions = 0
  /\ disposed = {}
  /\ calls = [k \in CallIds |-> NoCall]
  /\ wire = <<>>

ExtraInit == SubsInit /\ AttrIdle /\ EditorIdle

vars == <<brokerVars, storeVars, uiVars, dbQueue, pageExtra>>

InitBroker == BrokerInit /\ StoreInit /\ UiInit /\ ExtraInit /\ dbMode = "direct" /\ ui = "svelte"

NextBroker ==
  \/ \E s \in Subscriptions : RegisterClientTarget(s[1], s[2])
  \/ \E t \in Targets, d \in DocIds \cup {NoDoc} : UnregisterClientTarget(t, d)
  \/ \E c \in Conns : RpcBroken(c)
  \/ CreateDoc
  \/ \E d \in {"X", NoDoc} : AddCommits(d, {"h1", "h2"})
  \/ AddWorkerCommit("X", "h1")
  \/ \E b \in ReqIds, accepted \in BOOLEAN : EngineSettles(b, accepted)
  \/ \E b \in ReqIds, ok \in BOOLEAN : DeliverySettles(b, ok)
  \/ \E b \in ReqIds : HandlerReturns(b)

SpecBroker == InitBroker /\ [][NextBroker]_vars

(***************************************************************************)
(* The ingestor alone: ingest calls one after another, while time passes.  *)
(***************************************************************************)
InitIngest == BrokerInit /\ StoreInit /\ UiInit /\ ExtraInit /\ ui = "svelte"

NextIngest ==
  \/ \E c \in {"A", "B"}, list \in SeqsUpTo(IngestHashes, MaxBatch) : IngestCall(c, list)
  \/ IngestSaveDocCommit
  \/ IngestSaveMessage
  \/ IngestSelectChanges
  \/ IngestSaveDocument
  \/ IngestUpdateLastModified
  \/ Tick

SpecIngest == InitIngest /\ [][NextIngest]_vars

(***************************************************************************)
(* One ingest call on the empty store whose batch mixes valid commits with *)
(* commits that do not parse, that lack their content, and that come in an *)
(* encoding toUint8Array rejects.                                          *)
(***************************************************************************)
MaxMixed == 3       \* commits in the batch
MixedHashes == {"m1", "d1", "x1", "n1", "n2", "u1"}

InitBatch == InitIngest

NextBatch ==
  \/ \E list \in SeqsUpTo(MixedHashes, MaxMixed) : ingests = 0 /\ IngestCall("A", list)
  \/ IngestSaveDocCommit
  \/ IngestSaveMessage
  \/ IngestSelectChanges
  \/ IngestSaveDocument
  \/ IngestUpdateLastModified

SpecBatch == InitBatch /\ [][NextBatch]_vars

(***************************************************************************)
(* One channel session: live events, edits and timers in channel A, and    *)
(* a channel joined by address meanwhile.                                  *)
(***************************************************************************)
\* selectChannel(A) has completed on an empty store.
SessionInA ==
  /\ currentChannel = [id |-> "A", docId |-> "X"]
  /\ connectionStatus = "connected"
  /\ rpc = "open"
  /\ subscriptionActive = TRUE
  /\ subscriptionDocId = "X"
  /\ serverSubs = {"X"}
  /\ documentContent = ""
  /\ latestDocumentContent = ""
  /\ documentHistory = <<>>
  /\ documentDebounce = NoTimer
  /\ applyingRemoteDocument = FALSE
  /\ guardTimers = 0
  /\ messages = <<>>
  /\ processedCommitHashes = {}
  /\ procs = [i \in ProcIds |-> NoProc]
  /\ op = NoOp
  /\ sent = {}

InitLive ==
  /\ BrokerInit
  /\ StoreInit
  /\ ExtraInit
  /\ ui \in {"svelte", "react"}
  /\ chanDoc = [c \in Channels |-> IF c = "A" THEN "X" ELSE IF c = "B" THEN "Y" ELSE "none"]
  /\ SessionInA
  /\ events = 0
  /\ lastEvent = "none"
  /\ edits = 0
  /\ ops = 0

NextLive ==
  \/ \E d \in serverSubs, h \in EventHashes : EventArrives(d, h)
  \/ \E i \in ProcIds : ProcSaveDocument(i)
  \/ \E i \in ProcIds : ProcSaveDocCommit(i)
  \/ \E i \in ProcIds : ProcSaveMessage(i)
  \/ \E i \in ProcIds : ProcSelectChanges(i)
  \/ GuardTimerFires
  \/ \E v \in EditValues : edits < MaxEdits /\ HandleDocumentInput(v)
  \/ DebounceFires
  \/ JoinChannelByAddress(JoinAddress)
  \/ \E ok \in BOOLEAN, list \in Preloads : JoinLoaded(ok, list)
  \/ JoinCreated
  \/ JoinIngested
  \/ IngestSaveDocCommit
  \/ IngestSaveMessage
  \/ IngestSelectChanges
  \/ IngestSaveDocument
  \/ IngestUpdateLastModified
  \/ Tick

SpecLive == InitLive /\ [][NextLive]_vars

(***************************************************************************)
(* The document editor of one channel session: remote document commits,    *)
(* typing, the debounce timer, the history slider and restore.  The        *)
(* session starts on an empty history or on three stored versions.         *)
(***************************************************************************)
MaxBurst == 2       \* keystrokes of one session
MaxRestores == 2    \* restores of one session
BurstValues == {"p", "q"}
DocumentHashes == {"d1", "d2"}

Versions ==
  <<[commitHash |-> "h1", user |-> "alice", content |-> "v1", timestamp |-> 1],
    [commitHash |-> "h2", user |-> "bob", content |-> "v2", timestamp |-> 2],
    [commitHash |-> "h3", user |-> "alice", content |-> "v3", timestamp |-> 3]>>

\* What the slider may report: every index of the longest history, and one
\* value on either side of it.
SliderIndexes == (0 - 1)..(Len(Versions) + MaxEvents)

\* selectChannel(A) has completed on a store that holds the history.
SessionInAOn(history) ==
  /\ currentChannel = [id |-> "A", docId |-> "X"]
  /\ connectionStatus = "connected"
  /\ rpc = "open"
  /\ subscriptionActive = TRUE
  /\ subscriptionDocId = "X"
  /\ serverSubs = {"X"}
  /\ documentContent = IF history = <<>> THEN "" ELSE history[Len(history)].content
  /\ latestDocumentContent = documentContent
  /\ documentHistory = history
  /\ documentDebounce = NoTimer
  /\ applyingRemoteDocument = FALSE
  /\ guardTimers = 0
  /\ messages = <<>>
  /\ processedCommitHashes = HashesOf(history)
  /\ procs = [i \in ProcIds |-> NoProc]
  /\ op = NoOp
  /\ sent = {}
  /\ historyIndex = NullIndex
  /\ charAttribution = ReactiveAttribution(NoRestore, history, documentContent, NullIndex)
  /\ pendingTimers = 0
  /\ latestEdit = ""
  /\ restores = 0

\* The store after the history was saved for channel A.
StoreHolds(history) ==
  /\ now = ClockStart
  /\ dbMode = "direct"
  /\ msgRows = {}
  /\ docRows = {[channelId |-> "A", commitHash |-> history[k].commitHash,
                 user |-> history[k].user, content |-> history[k].content,
                 timestamp |-> history[k].timestamp] : k \in 1..Len(history)}
  /\ snapshots = [c \in Channels |->
                    IF c = "A" /\ history /= <<>>
                      THEN [content |-> history[Len(history)].content,
                            updatedAt |-> history[Len(history)].timestamp,
                            latestCommitHash |-> history[Len(history)].commitHash]
                      ELSE NoSnapshot]
  /\ dbLastModified = [c \in Channels |->
                         IF c = "A" /\ history /= <<>>
                           THEN history[Len(history)].timestamp ELSE 1]
  /\ changes = 0
  /\ chanLm = dbLastModified
  /\ ing = NoIngest
  /\ ingests = 0
  /\ prev = NoPrev
  /\ dbQueue = <<>>

InitEditor ==
  /\ BrokerInit
  /\ SubsInit
  /\ AttrIdle
  /\ ui \in {"svelte", "react"}
  /\ chanDoc = [c \in Channels |-> IF c = "A" THEN "X" ELSE IF c = "B" THEN "Y" ELSE "none"]
  /\ \E n \in {0, Len(Versions)} :
       /\ StoreHolds(SubSeq(Versions, 1, n))
       /\ SessionInAOn(SubSeq(Versions, 1, n))
  /\ events = 0
  /\ lastEvent = "none"
  /\ edits = 0
  /\ ops = 0

NextEditor ==
  \/ \E d \in serverSubs, h \in DocumentHashes : EventArrives(d, h)
  \/ \E i \in ProcIds : ProcSaveDocument(i)
  \/ \E i \in ProcIds : ProcSaveDocCommit(i)
  \/ GuardTimerFires
  \/ \E v \in BurstValues : edits < MaxBurst /\ HandleDocumentInput(v)
  \/ DebounceFires
  \/ \E n \in SliderIndexes : HandleHistorySliderChange(n)
  \/ restores < MaxRestores /\ HandleRestoreVersion

SpecEditor == InitEditor /\ [][NextEditor]_vars

(***************************************************************************)
(* The live editor of one session with its timers left to run: the 500 ms  *)
(* debounce timer, the setTimeout(0) of the guard and the store statements *)
(* of processCommitEvent complete when nothing cancels them; the user and  *)
(* the service act when they choose.                                       *)
(***************************************************************************)
InitEdits == InitEditor /\ ui = "svelte" /\ documentHistory = <<>>

NextEdits ==
  \/ \E d \in serverSubs, h \in DocumentHashes : EventArrives(d, h)
  \/ \E i \in ProcIds : ProcSaveDocument(i)
  \/ \E i \in ProcIds : ProcSaveDocCommit(i)
  \/ GuardTimerFires
  \/ \E v \in BurstValues : edits < MaxBurst /\ HandleDocumentInput(v)
  \/ DebounceFires

FairEdits ==
  /\ WF_vars(DebounceFires)
  /\ WF_vars(GuardTimerFires)
  /\ WF_vars(\E i \in ProcIds : ProcSaveDocument(i))
  /\ WF_vars(\E i \in ProcIds : ProcSaveDocCommit(i))

SpecEdits == InitEdits /\ [][NextEdits]_vars /\ FairEdits

(***************************************************************************)
(* Viewing an earlier revision while remote document commits arrive, some  *)
(* of them stamped earlier than the revision on view.                      *)
(***************************************************************************)
TravelHashes == {"d2", "d3"}

InitTravel == InitEditor /\ ui = "svelte" /\ Len(documentHistory) = Len(Versions)

NextTravel ==
  \/ \E d \in serverSubs, h \in TravelHashes : EventArrives(d, h)
  \/ \E i \in ProcIds : ProcSaveDocument(i)
  \/ \E i \in ProcIds : ProcSaveDocCommit(i)
  \/ GuardTimerFires
  \/ \E n \in SliderIndexes : HandleHistorySliderChange(n)

SpecTravel == InitTravel /\ [][NextTravel]_vars

(***************************************************************************)
(* Restoring a revision, sending it, and receiving the commit back from    *)
(* the service: e1 and e2 are the commits sendDocumentUpdate builds for    *)
(* the texts v1 and v2 as the local user.                                  *)
(***************************************************************************)
EchoHashes == {"e1", "e2"}

\* The service broadcasts a commit once the page has submitted its content.
EchoArrives(d, h) ==
  /\ \E c \in sent : c.content = PayloadOf(h).content /\ c.docId = d
  /\ EventArrives(d, h)

InitRestore == InitEditor /\ ui = "svelte" /\ Len(documentHistory) = Len(Versions)

NextRestore ==
  \/ \E d \in serverSubs, h \in EchoHashes : EchoArrives(d, h)
  \/ \E i \in ProcIds : ProcSaveDocument(i)
  \/ \E i \in ProcIds : ProcSaveDocCommit(i)
  \/ GuardTimerFires
  \/ DebounceFires
  \/ \E n \in SliderIndexes : HandleHistorySliderChange(n)
  \/ restores < MaxRestores /\ HandleRestoreVersion

SpecRestore == InitRestore /\ [][NextRestore]_vars

(***************************************************************************)
(* Subscriptions: overlapping selectChannel and leaveChannel calls of one  *)
(* page against the service's registrations.                               *)
(***************************************************************************)
InitSubs == BrokerInit /\ StoreInit /\ UiInit /\ ExtraInit /\ dbMode = "direct" /\ ui = "svelte"

NextSubs ==
  \/ \E k \in CallIds, c \in {"A", "B"} : SubsSelect(k, c)
  \/ \E k \in CallIds : SubsLeave(k)
  \/ \E k \in CallIds : SubsUnsubscribed(k)
  \/ \E k \in CallIds, ok \in BOOLEAN : SubsConnected(k, ok)
  \/ \E k \in CallIds : SubsSubscribed(k)
  \/ \E i \in 1..MaxCalls : SubsBrokerRegisters(i)
  \/ \E i \in 1..MaxCalls : SubsBrokerUnregisters(i)
  \/ \E n \in 1..MaxSessions : SubsSessionBroken(n)

SpecSubs == InitSubs /\ [][NextSubs]_vars

(***************************************************************************)
(* The attribution functions applied to bounded inputs.                    *)
(***************************************************************************)
InitAttribution ==
  /\ BrokerInit /\ StoreInit /\ UiInit /\ SubsInit /\ EditorIdle
  /\ dbMode = "direct" /\ ui = "svelte"
  /\ attrIn \in MergeInputs \cup EnsureInputs \cup ComputeInputs
  /\ attrOut = <<>>
  /\ attrOp = "none"

NextAttribution ==
  \/ ApplyMergeAttribution
  \/ ApplyComputeCharAttribution
  \/ ApplyEnsureAttributionMatchesContent

SpecAttribution == InitAttribution /\ [][NextAttribution]_vars

(***************************************************************************)
(* The commit factory on its own: one call on arguments drawn from the     *)
(* contents and parent lists of the model.                                 *)
(***************************************************************************)
InitCommit ==
  /\ BrokerInit /\ StoreInit /\ UiInit /\ SubsInit /\ EditorIdle
  /\ dbMode = "direct" /\ ui = "svelte"
  /\ attrIn \in CommitInputs
  /\ attrOut = <<>>
  /\ attrOp = "none"

NextCommit ==
  \/ ApplyCreateCommit
  \/ ApplyCreateDoc
  \/ ApplyAddWorkerCommit

SpecCommit == InitCommit /\ [][NextCommit]_vars

(***************************************************************************)
(* Cursor preservation on one remote document commit, over the texts and   *)
(* selections of the model.                                                *)
(***************************************************************************)
InitCursor ==
  /\ BrokerInit /\ StoreInit /\ UiInit /\ SubsInit /\ EditorIdle
  /\ dbMode = "direct" /\ ui = "svelte"
  /\ \E in \in CursorInputs :
       /\ CursorInputOk(in)
       /\ attrIn = [kind |-> "cursor"] @@ in
  /\ attrOut = <<>>
  /\ attrOp = "none"

NextCursor ==
  \/ CursorCommitApplied
  \/ CursorRestore
  \/ TextareaUpdated

SpecCursor == InitCursor /\ [][NextCursor]_vars

(***************************************************************************)
(* Channel sessions: selecting, switching and leaving channels, with the   *)
(* editor, its timers and live events.                                     *)
(***************************************************************************)
InitClient == BrokerInit /\ StoreInit /\ UiInit /\ ExtraInit

NextClient ==
  \/ \E c \in {"A", "B"} : SelectChannel(c)
  \/ \E ok \in BOOLEAN : SelUnsubscribed(ok)
  \/ \E ok \in BOOLEAN : SelHello(ok)
  \/ \E ok \in BOOLEAN, list \in {<<"i0">>, <<"i0", "m1", "d1">>} : SelLoadDocument(ok, list)
  \/ \E ok \in BOOLEAN : SelCreateDoc(ok)
  \/ SelUpdateDocId
  \/ SelGetDocument
  \/ SelGetCommits
  \/ SelHydrated
  \/ SelGetMessages
  \/ \E ok \in BOOLEAN : SelSubscribed(ok)
  \/ LeaveChannel
  \/ \E ok \in BOOLEAN : LeaveUnsubscribed(ok)
  \/ IngestSaveDocCommit
  \/ IngestSaveMessage
  \/ IngestSelectChanges
  \/ IngestSaveDocument
  \/ IngestUpdateLastModified
  \/ \E d \in serverSubs : EventArrives(d, "d2")
  \/ \E i \in ProcIds : ProcSaveDocument(i)
  \/ \E i \in ProcIds : ProcSaveDocCommit(i)
  \/ GuardTimerFires
  \/ \E v \in EditValues : edits < MaxEdits /\ HandleDocumentInput(v)
  \/ DebounceFires

SpecClient == InitClient /\ [][NextClient]_vars

(***************************************************************************)
(* The history slider across channel sessions of the Svelte page:          *)
(* selecting, switching and leaving channels, remote document commits, the *)
(* slider and restore.                                                     *)
(***************************************************************************)
InitTimeline == InitClient /\ ui = "svelte"

NextTimeline ==
  \/ \E c \in {"A", "B"} : SelectChannel(c)
  \/ \E ok \in BOOLEAN : SelUnsubscribed(ok)
  \/ \E ok \in BOOLEAN : SelHello(ok)
  \/ \E ok \in BOOLEAN, list \in {<<"i0">>, <<"i0", "m1", "d1">>} : SelLoadDocument(ok, list)
  \/ \E ok \in BOOLEAN : SelCreateDoc(ok)
  \/ SelUpdateDocId
  \/ SelGetDocument
  \/ SelGetCommits
  \/ SelHydrated
  \/ SelGetMessages
  \/ \E ok \in BOOLEAN : SelSubscribed(ok)
  \/ LeaveChannel
  \/ \E ok \in BOOLEAN : LeaveUnsubscribed(ok)
  \/ IngestSaveDocCommit
  \/ IngestSaveMessage
  \/ IngestSelectChanges
  \/ IngestSaveDocument
  \/ IngestUpdateLastModified
  \/ \E d \in serverSubs : EventArrives(d, "d2")
  \/ \E i \in ProcIds : ProcSaveDocument(i)
  \/ \E i \in ProcIds : ProcSaveDocCommit(i)
  \/ GuardTimerFires
  \/ DebounceFires
  \/ \E n \in SliderIndexes : HandleHistorySliderChange(n)
  \/ restores < MaxRestores /\ HandleRestoreVersion

SpecTimeline == InitTimeline /\ [][NextTimeline]_vars

(***************************************************************************)
(* The channels table of the Svelte page: channel creation by address,     *)
(* document-id assignment, ingest calls and live commit events, while time *)
(* passes.  Commit f1 carries a timestamp of a sender whose clock is ahead. *)
(***************************************************************************)
MaxLiveEvents == 1    \* live commit events delivered
Histories == {<<"i0">>, <<"i0", "m1", "d1">>, <<"i0", "f1">>}

InitActivity == InitClient /\ ui = "svelte" /\ dbMode = "direct"

NextActivity ==
  \/ \E c \in {"A", "B"} : SelectChannel(c)
  \/ \E ok \in BOOLEAN : SelUnsubscribed(ok)
  \/ \E ok \in BOOLEAN : SelHello(ok)
  \/ \E ok \in BOOLEAN, list \in Histories : SelLoadDocument(ok, list)
  \/ \E ok \in BOOLEAN : SelCreateDoc(ok)
  \/ SelUpdateDocId
  \/ SelGetDocument
  \/ SelGetCommits
  \/ SelHydrated
  \/ SelGetMessages
  \/ \E ok \in BOOLEAN : SelSubscribed(ok)
  \/ JoinChannelByAddress(JoinAddress)
  \/ \E ok \in BOOLEAN, list \in Histories : JoinLoaded(ok, list)
  \/ JoinCreated
  \/ JoinIngested
  \/ IngestSaveDocCommit
  \/ IngestSaveMessage
  \/ IngestSaveDocument
  \/ IngestUpdateLastModified
  \/ \E d \in serverSubs, h \in {"m1", "d2"} : events < MaxLiveEvents /\ EventArrives(d, h)
  \/ \E i \in ProcIds : ProcSaveDocument(i)
  \/ \E i \in ProcIds : ProcSaveDocCommit(i)
  \/ \E i \in ProcIds : ProcSaveMessage(i)
  \/ GuardTimerFires
  \/ Tick

SpecActivity == InitActivity /\ [][NextActivity]_vars

(***************************************************************************)
(* The remote-document guard of the Svelte page on the worker API, where   *)
(* user events run between a store statement and its completion: channel   *)
(* sessions and remote document commits.  Timers that are due fire, store  *)
(* statements complete and RPC calls settle; the user and the service act  *)
(* when they please.                                                       *)
(***************************************************************************)
InitGuard == InitClient /\ ui = "svelte" /\ dbMode = "promiser"

NextGuard ==
  \/ SelectChannel("A")
  \/ \E ok \in BOOLEAN : SelUnsubscribed(ok)
  \/ \E ok \in BOOLEAN : SelHello(ok)
  \/ \E ok \in BOOLEAN : SelLoadDocument(ok, <<"i0">>)
  \/ \E ok \in BOOLEAN : SelCreateDoc(ok)
  \/ SelUpdateDocId
  \/ SelGetDocument
  \/ SelGetCommits
  \/ SelHydrated
  \/ SelGetMessages
  \/ \E ok \in BOOLEAN : SelSubscribed(ok)
  \/ LeaveChannel
  \/ \E ok \in BOOLEAN : LeaveUnsubscribed(ok)
  \/ IngestUpdateLastModified
  \/ \E d \in serverSubs : EventArrives(d, "d1")
  \/ \E i \in ProcIds : ProcSaveDocument(i)
  \/ \E i \in ProcIds : ProcSaveDocCommit(i)
  \/ GuardTimerFires

\* What runs without the user: the setTimeout(0) callback, the completion of
\* store statements and the settlement of RPC calls.
FairGuard ==
  /\ WF_vars(GuardTimerFires)
  /\ WF_vars(\E i \in ProcIds : ProcSaveDocument(i))
  /\ WF_vars(\E i \in ProcIds : ProcSaveDocCommit(i))
  /\ WF_vars(SelUpdateDocId)
  /\ WF_vars(SelGetDocument)
  /\ WF_vars(SelGetCommits)
  /\ WF_vars(SelHydrated)
  /\ WF_vars(SelGetMessages)
  /\ WF_vars(IngestUpdateLastModified)
  /\ WF_vars(\E ok \in BOOLEAN : SelUnsubscribed(ok))
  /\ WF_vars(\E ok \in BOOLEAN : SelHello(ok))
  /\ WF_vars(\E ok \in BOOLEAN : SelLoadDocument(ok, <<"i0">>))
  /\ WF_vars(\E ok \in BOOLEAN : SelCreateDoc(ok))
  /\ WF_vars(\E ok \in BOOLEAN : SelSubscribed(ok))
  /\ WF_vars(\E ok \in BOOLEAN : LeaveUnsubscribed(ok))

SpecGuard == InitGuard /\ [][NextGuard]_vars /\ FairGuard

(***************************************************************************)
(* Live events against channel switches on the worker API of the store:    *)
(* the user selects a channel while processCommitEvent is suspended at a   *)
(* store write.                                                            *)
(***************************************************************************)
SwitchHashes == {"m1", "d1"}

InitSwitch == InitClient /\ ui = "svelte" /\ dbMode = "promiser"

NextSwitch ==
  \/ \E c \in {"A", "B"} : SelectChannel(c)
  \/ \E ok \in BOOLEAN : SelUnsubscribed(ok)
  \/ \E ok \in BOOLEAN : SelHello(ok)
  \/ \E ok \in BOOLEAN : SelLoadDocument(ok, <<"i0">>)
  \/ \E ok \in BOOLEAN : SelCreateDoc(ok)
  \/ SelUpdateDocId
  \/ SelGetDocument
  \/ SelGetCommits
  \/ SelHydrated
  \/ SelGetMessages
  \/ \E ok \in BOOLEAN : SelSubscribed(ok)
  \/ IngestUpdateLastModified
  \/ \E d \in serverSubs, h \in SwitchHashes : EventArrives(d, h)
  \/ \E i \in ProcIds : ProcSaveDocument(i)
  \/ \E i \in ProcIds : ProcSaveDocCommit(i)
  \/ \E i \in ProcIds : ProcSaveMessage(i)
  \/ \E i \in ProcIds : ProcSelectChanges(i)
  \/ GuardTimerFires

SpecSwitch == InitSwitch /\ [][NextSwitch]_vars

(***************************************************************************)
(* Live events of the Svelte page whose payloads are not valid messages or *)
(* documents: text that does not parse, unknown types, missing fields.     *)
(***************************************************************************)
InvalidHashes == {"x1", "i0", "k1", "n1", "n2", "m2"}

InitPayloads == InitLive /\ ui = "svelte"

NextPayloads ==
  \/ \E h \in InvalidHashes \cup {"m1"} : EventArrives("X", h)
  \/ \E i \in ProcIds : ProcSaveMessage(i)
  \/ \E i \in ProcIds : ProcSelectChanges(i)

SpecPayloads == InitPayloads /\ [][NextPayloads]_vars

(***************************************************************************)
(* The live path on single commits of every shape, to be compared with     *)
(* what persistCommitsForChannel stores for the same commit.               *)
(***************************************************************************)
PathHashes == {"m1", "m2", "m3", "d1", "d2", "k1", "n1", "n2", "x1", "u1", "i0"}

InitPaths == InitLive /\ ui = "svelte"

NextPaths ==
  \/ \E h \in PathHashes : EventArrives("X", h)
  \/ \E i \in ProcIds : ProcSaveDocument(i)
  \/ \E i \in ProcIds : ProcSaveDocCommit(i)
  \/ \E i \in ProcIds : ProcSaveMessage(i)
  \/ \E i \in ProcIds : ProcSelectChanges(i)
  \/ GuardTimerFires

SpecPaths == InitPaths /\ [][NextPaths]_vars

(***************************************************************************)
(* Properties of the broker.                                               *)
(***************************************************************************)
Live == Range(clientTargets)
Created == 1..(nextReg - 1)
Broadcasting(r) == r.phase \in {"await", "done"}

\* The filter test as the specification words it: the registration's filter
\* is unset or equals the broadcast's docId.
FilterUnsetOrEqual(id, d) == regs[id].docId = NoDoc \/ regs[id].docId = d

\* The filter test with an absent docId addressing every registration.
FilterAdmits(id, d) == d = NoDoc \/ FilterUnsetOrEqual(id, d)

\* C3 as stated: every registration of the snapshot is offered the event if
\* and only if its filter is unset or equals the broadcast's docId, where the
\* docId may be absent.
C3_OfferedIffUnsetOrEqual ==
  \A b \in ReqIds :
    Broadcasting(req[b]) =>
      /\ \A id \in Range(req[b].offered) : FilterUnsetOrEqual(id, req[b].docId)
      /\ req[b].phase = "done" =>
           \A id \in Range(req[b].snap) :
             FilterUnsetOrEqual(id, req[b].docId) => id \in Range(req[b].offered)

\* C3 amended: a registration present at the start of a broadcast is offered
\* the event if and only if the broadcast's docId is absent, or the
\* registration's filter is unset, or the filter equals the docId; with a
\* docId present, a registration filtered on another document is never offered.
C3_OfferedIffAdmitted ==
  \A b \in ReqIds :
    Broadcasting(req[b]) =>
      /\ \A id \in Range(req[b].offered) :
           id \in Range(req[b].snap) /\ FilterAdmits(id, req[b].docId)
      /\ req[b].phase = "done" =>
           \A id \in Range(req[b].snap) :
             FilterAdmits(id, req[b].docId) => id \in Range(req[b].offered)

\* A finished broadcast for X over an unfiltered registration, one filtered on
\* X and one filtered on Y: the first two were offered, the third was not.
C3_Witness ==
  \E b \in ReqIds :
    /\ req[b].phase = "done" /\ req[b].docId = "X"
    /\ \E i, j, k \in Range(req[b].snap) :
         /\ regs[i].docId = NoDoc /\ regs[j].docId = "X" /\ regs[k].docId = "Y"
         /\ i \in Range(req[b].offered) /\ j \in Range(req[b].offered)
         /\ k \notin Range(req[b].offered)

\* C4 (state part): within a broadcast no registration is offered twice; a
\* registration whose delivery threw is released and no longer registered; a
\* broadcast that has finished has offered the event to every admitted
\* registration of its snapshot, throwers before it or not; a registration
\* released before a broadcast started is not offered that broadcast.
C4_State ==
  \A b \in ReqIds :
    Broadcasting(req[b]) =>
      /\ \A i, j \in 1..Len(req[b].offered) :
           i /= j => req[b].offered[i] /= req[b].offered[j]
      /\ \A id \in req[b].threw : id \notin Live /\ disposeCount[id] >= 1
      /\ req[b].phase = "done" =>
           \A id \in Range(req[b].snap) :
             FilterAdmits(id, req[b].docId) => id \in Range(req[b].offered)
      /\ Range(req[b].offered) \cap req[b].goneAtStart = {}

\* C4 (step part): a delivery that resolves leaves the registration set and
\* the retained references as they are.
C4_Step ==
  \A b \in ReqIds :
    (/\ req[b].phase = "await"
     /\ req'[b] /= req[b]
     /\ req'[b].phase \in {"await", "done"}
     /\ req'[b].threw = req[b].threw)
      => clientTargets' = clientTargets /\ disposeCount' = disposeCount

\* C4: a delivery that throws does not stop the broadcast; the registration
\* that threw is released and removed, not offered again in this broadcast nor
\* in a later one; a registration whose delivery succeeded stays registered.
C4_FailureIsContained == []C4_State /\ [][C4_Step]_vars

\* Three registrations, all admitted; the second threw: the broadcast went on
\* to the third, and the first and third are still registered.
C4_Witness ==
  \E b \in ReqIds :
    /\ req[b].phase = "done"
    /\ req[b].offered = <<1, 2, 3>>
    /\ req[b].threw = {2}
    /\ clientTargets = <<1, 3>>
    /\ disposeCount = [id \in RegIds |-> IF id = 2 THEN 1 ELSE 0]

\* C5: a registration that is no longer in the registration set has had its
\* retained reference released, whichever way it left (unregister, delivery
\* failure, connection breakage), and no registration of a broken connection
\* remains.
C5_RemovedIsReleased ==
  /\ \A id \in Created : id \notin Live => disposeCount[id] >= 1
  /\ \A id \in Live : ConnOf(regs[id].orig) \notin brokenConns

\* Three registrations have left, one on each removal path.
C5_Witness ==
  /\ Live = {}
  /\ \E i, j, k \in Created :
       /\ removedBy[i] = "unregister"
       /\ removedBy[j] = "failure"
       /\ removedBy[k] = "broken"

\* The first position of the registration set whose registration has original
\* target t and, when a docId d is given, filter d; 0 when there is none.
FirstMatching(t, d) ==
  LET hits == {i \in 1..Len(clientTargets) :
                 /\ regs[clientTargets[i]].orig = t
                 /\ (d = NoDoc \/ regs[clientTargets[i]].docId = d)}
  IN IF hits = {} THEN 0 ELSE CHOOSE i \in hits : \A k \in hits : i <= k

\* C6: unregister(target, docId?) removes exactly the first registration in
\* registration order whose original target is target and whose filter matches
\* docId, and releases its retained reference; every other registration is
\* left as it is, and without a match nothing changes.
C6_UnregisterRemovesFirstMatch ==
  [][\A t \in Targets, d \in DocIds \cup {NoDoc} :
       UnregisterClientTarget(t, d) =>
         LET i == FirstMatching(t, d)
         IN IF i = 0
              THEN clientTargets' = clientTargets /\ disposeCount' = disposeCount
              ELSE /\ clientTargets' = RemoveAt(clientTargets, i)
                   /\ disposeCount'[clientTargets[i]] >= 1
                   /\ \A id \in RegIds \ {clientTargets[i]} :
                        disposeCount'[id] = disposeCount[id]
                   /\ regs' = regs]_vars

\* Target t1 registered three times, twice with filter X: unregister(t1, X)
\* removed the first of the two and nothing else.
C6_Witness ==
  /\ nextReg = 4
  /\ \A id \in 1..3 : regs[id].orig = "t1"
  /\ regs[1].docId = NoDoc /\ regs[2].docId = "X" /\ regs[3].docId = "X"
  /\ clientTargets = <<1, 3>>
  /\ removedBy[2] = "unregister"
  /\ disposeCount = [id \in RegIds |-> IF id = 2 THEN 1 ELSE 0]

\* C7: an event is offered to a subscriber only after the replication engine
\* has accepted the mutation it announces (that document, those commits); a
\* handler whose engine call failed broadcasts nothing.
C7_BroadcastAfterCommit ==
  \A b \in ReqIds :
    /\ req[b].offered /= <<>> => MutationOf(req[b]) \in engineLog
    /\ Broadcasting(req[b]) => MutationOf(req[b]) \in engineLog
    /\ req[b].phase = "failed" => req[b].offered = <<>>

\* An accepted addWorkerCommit on X has been offered to a subscriber, and an
\* earlier request that the engine refused has broadcast nothing.
C7_Witness ==
  \E a, b \in ReqIds :
    /\ req[a].phase = "failed"
    /\ req[b].kind = "addWorkerCommit" /\ req[b].offered /= <<>>
    /\ EventOf(req[b]) = [type |-> "commitAdded", docId |-> "X", commits |-> {"h1"}]

(***************************************************************************)
(* Properties of the commit ingestor.                                      *)
(***************************************************************************)

\* An ingest call has returned, and the call before it had returned too and
\* was given the same channel and the same commit list.
SecondRunReturned ==
  /\ ing.pc = "done"
  /\ prev.valid
  /\ prev.channel = ing.channel
  /\ prev.list = ing.list

\* The stored Messages, DocumentHistoryEntries and DocumentSnapshot are the
\* ones the previous call left.
RowsAsPrevLeftThem ==
  /\ msgRows = prev.msgRows
  /\ docRows = prev.docRows
  /\ snapshots = prev.snapshots

\* C1: running ingest(channel, L) a second time with the same list leaves the
\* stored Messages, DocumentHistoryEntries and DocumentSnapshot identical,
\* and the second run returns messageCount = 0 and documentCount = 0.
C1_SecondIngestIsNoOp ==
  SecondRunReturned =>
    /\ RowsAsPrevLeftThem
    /\ ing.messageCount = 0
    /\ ing.documentCount = 0

\* C1, the stored rows alone: a second run leaves the rows identical.
C1_SecondIngestKeepsRows == SecondRunReturned => RowsAsPrevLeftThem

\* C1, the part of it that the code keeps: the second run inserts no Message
\* or DocumentHistoryEntry and counts no message.
C1_SecondIngestInsertsNothing ==
  SecondRunReturned =>
    /\ msgRows = prev.msgRows
    /\ docRows = prev.docRows
    /\ ing.messageCount = 0

\* At most one stored Message per commit hash.
OneMessagePerHash ==
  \A r1, r2 \in msgRows : r1.commitHash = r2.commitHash => r1 = r2

\* C2: after any sequence of ingest calls and live commit events at most one
\* stored Message exists per commit hash, and ingest counts a message commit
\* in messageCount only when its row was newly inserted: the count never
\* exceeds the number of rows the call has inserted.
C2_MessagesStoredAndCountedOnce ==
  /\ OneMessagePerHash
  /\ ing.messageCount <= ing.newRows

\* C2, the stored rows alone.
C2_OneMessagePerHash == OneMessagePerHash

\* C2, the example: an ingest call given a list that holds a message commit
\* twice, its row being inserted by this call, returns messageCount = 1 for it.
C2_RepeatedCommitCountedOnce ==
  (ing.pc = "done" /\ ing.newRows = 1) => ing.messageCount = 1

(***************************************************************************)
(* Properties of the live sync pipeline.                                   *)
(***************************************************************************)
EventDocs == {"X", "Y", "W", "Z"}

\* C8: when a live commit event arrives whose hash is already in the
\* processed-hash set, processing it is a no-op: live document content,
\* document history, message list, persisted rows, the pending debounce timer
\* and the applyingRemoteDocument guard are unchanged, and so are the
\* processed-hash set and the calls in progress.
C8_DuplicateEventIsNoOp ==
  [][\A d \in EventDocs, h \in EventHashes :
       (EventArrives(d, h) /\ h \in processedCommitHashes) =>
         UNCHANGED <<documentContent, latestDocumentContent, documentHistory, messages,
                     msgRows, docRows, snapshots, documentDebounce,
                     applyingRemoteDocument, guardTimers, processedCommitHashes,
                     procs, dbQueue>>]_vars

\* An event of the current channel has arrived whose hash was in the set
\* while an edit was waiting for its debounce timer.
C8_Witness ==
  /\ lastEvent = "duplicate"
  /\ processedCommitHashes /= {}
  /\ documentDebounce.armed

\* C9: within one channel session the processed-hash set only grows: a hash
\* that has been added is still in the set after any later message event,
\* document event or local edit of the session.
C9_ProcessedSetOnlyGrows ==
  [][processedCommitHashes \subseteq processedCommitHashes']_vars

\* C9 on the Svelte page alone.
C9_ProcessedSetOnlyGrowsSvelte ==
  [][ui = "svelte" => processedCommitHashes \subseteq processedCommitHashes']_vars

(***************************************************************************)
(* Properties of channel switching.                                        *)
(***************************************************************************)

\* A pending debounce timer belongs to the channel that is current.
NoStaleTimer ==
  documentDebounce.armed => documentDebounce.editedIn = currentChannel.id

\* Every document commit submitted went to the channel its content was edited in.
EditsStayInTheirChannel == \A s \in sent : s.channel = s.editedIn

\* C10: switching channels cancels any pending document debounce timer, hence
\* content edited in channel A is never submitted as a document commit to
\* channel B's document after the switch.
C10_SwitchCancelsPendingEdit == NoStaleTimer /\ EditsStayInTheirChannel

\* C10, the conclusion alone.
C10_EditsStayInTheirChannel == EditsStayInTheirChannel

\* C10, the conclusion on the React page alone.
C10_EditsStayInTheirChannelReact == ui = "react" => EditsStayInTheirChannel

(***************************************************************************)
(* C11.  In every interleaving of selectChannel and leaveChannel calls of  *)
(* one page, overlapping ones included, the service never holds two live   *)
(* registrations of the page's event target for one document id, so that   *)
(* one broadcast for a document offers its event to the page at most once. *)
(***************************************************************************)
LivePageRegs(d) ==
  {id \in Range(clientTargets) : regs[id].orig \in PageStubs /\ regs[id].docId = d}

\* The registrations of the page a broadcast for document d offers its event to.
PageOffers(d) ==
  {id \in Range(clientTargets) : regs[id].orig \in PageStubs /\ ~Skips(regs[id].docId, d)}

C11_OneRegistrationPerDocument ==
  \A d \in DocIds : Cardinality(LivePageRegs(d)) <= 1 /\ Cardinality(PageOffers(d)) <= 1

(***************************************************************************)
(* C14.  computeCharAttribution(entries) has one element per character of  *)
(* the last entry's content, and ensureAttributionMatchesContent(base,     *)
(* content, fallback) one per character of content; the characters of the  *)
(* result are the characters of that content, in order.  Characters are    *)
(* what Array.from yields.                                                 *)
(***************************************************************************)
LastContentChars(entries) ==
  IF entries = <<>> THEN <<>> ELSE ArrayFromString(entries[Len(entries)].content)

C14_AttributionCoversContent ==
  /\ attrOp = "compute" =>
       /\ Len(attrOut) = Len(LastContentChars(attrIn.entries))
       /\ CharsOf(attrOut) = LastContentChars(attrIn.entries)
  /\ attrOp = "ensure" =>
       /\ Len(attrOut) = Len(ArrayFromString(attrIn.content))
       /\ CharsOf(attrOut) = ArrayFromString(attrIn.content)

\* Three entries, the last two with different non-empty contents, the last
\* one ending in characters the one before does not have.
C14_Witness ==
  /\ attrOp = "compute"
  /\ Len(attrIn.entries) = 3
  /\ attrIn.entries[2].content = <<"a">>
  /\ attrIn.entries[3].content = <<"a", "b">>
  /\ attrIn.entries[2].user /= attrIn.entries[3].user
  /\ Len(attrOut) = 2

(***************************************************************************)
(* C15.  Round trip: merging an attribution with its own characters gives  *)
(* the attribution back, whatever the fallback author.                     *)
(***************************************************************************)
C15_RoundTrip ==
  (attrOp = "merge" /\ attrIn.nextChars = CharsOf(attrIn.previous))
    => attrOut = attrIn.previous

C15_Witness ==
  /\ attrOp = "merge"
  /\ Len(attrIn.previous) = MaxAttr
  /\ attrIn.nextChars = CharsOf(attrIn.previous)
  /\ \A k \in 1..Len(attrIn.previous) : attrIn.previous[k].author /= attrIn.fallbackAuthor
  /\ attrOut = attrIn.previous

(***************************************************************************)
(* C16.  For a non-empty previous attribution, mergeAttribution returns    *)
(* what the reference procedure returns: the longest-common-subsequence    *)
(* lengths of the suffixes, then a walk from the start that carries the    *)
(* prior author on a match, drops a previous character when                *)
(* lcs(i+1, j) >= lcs(i, j+1), otherwise emits the next character for the  *)
(* fallback author, and gives all trailing next characters to the          *)
(* fallback author.  The carried characters are a longest common           *)
(* subsequence of the two texts; hello by alice, then hullo by bob, gives  *)
(* h:alice u:bob l:alice l:alice o:alice.                                  *)
(***************************************************************************)
RECURSIVE RefLcs(_, _, _, _)
RefLcs(a, b, i, j) ==
  IF i > Len(a) \/ j > Len(b) THEN 0
  ELSE IF a[i] = b[j] THEN 1 + RefLcs(a, b, i + 1, j + 1)
  ELSE Max(RefLcs(a, b, i + 1, j), RefLcs(a, b, i, j + 1))

RECURSIVE RefWalk(_, _, _, _, _)
RefWalk(previous, nextChars, fallbackAuthor, i, j) ==
  LET a == CharsOf(previous)
  IN IF j > Len(nextChars) THEN <<>>
     ELSE IF i > Len(previous)
       THEN <<[char |-> nextChars[j], author |-> fallbackAuthor]>>
            \o RefWalk(previous, nextChars, fallbackAuthor, i, j + 1)
     ELSE IF a[i] = nextChars[j]
       THEN <<[char |-> nextChars[j], author |-> previous[i].author]>>
            \o RefWalk(previous, nextChars, fallbackAuthor, i + 1, j + 1)
     ELSE IF RefLcs(a, nextChars, i + 1, j) >= RefLcs(a, nextChars, i, j + 1)
       THEN RefWalk(previous, nextChars, fallbackAuthor, i + 1, j)
     ELSE <<[char |-> nextChars[j], author |-> fallbackAuthor]>>
          \o RefWalk(previous, nextChars, fallbackAuthor, i, j + 1)

\* The subsequence of s at the positions I, and the common subsequences.
Sub(s, I) ==
  [k \in 1..Cardinality(I) |->
     s[CHOOSE x \in I : Cardinality({y \in I : y < x}) = k - 1]]
Subsequences(s) == {Sub(s, I) : I \in SUBSET (1..Len(s))}
CommonSubsequences(a, b) == Subsequences(a) \cap Subsequences(b)

\* The characters mergeAttribution carries over from previous.
Carried(previous, nextChars) ==
  CharsOf(SelectSeq(mergeAttribution(previous, nextChars, "someone new"),
                    LAMBDA item : item.author /= "someone new"))

C16_MergeIsReferenceWalk ==
  (attrOp = "merge" /\ attrIn.previous /= <<>>) =>
    LET a == CharsOf(attrIn.previous)
        common == CommonSubsequences(a, attrIn.nextChars)
        kept == Carried(attrIn.previous, attrIn.nextChars)
    IN /\ attrOut = RefWalk(attrIn.previous, attrIn.nextChars, attrIn.fallbackAuthor, 1, 1)
       /\ kept \in common
       /\ \A c \in common : Len(c) <= Len(kept)
       /\ attrIn.previous = HelloByAlice =>
            attrOut = <<[char |-> "h", author |-> "alice"], [char |-> "u", author |-> "bob"],
                        [char |-> "l", author |-> "alice"], [char |-> "l", author |-> "alice"],
                        [char |-> "o", author |-> "alice"]>>

\* A tie: ab against ba, where dropping a and inserting b are equally good.
C16_Witness ==
  /\ attrOp = "merge"
  /\ CharsOf(attrIn.previous) = <<"a", "b">>
  /\ attrIn.nextChars = <<"b", "a">>
  /\ attrIn.previous[2].author /= attrIn.fallbackAuthor
  /\ attrOut = <<[char |-> "b", author |-> attrIn.previous[2].author],
                 [char |-> "a", author |-> attrIn.fallbackAuthor]>>

(***************************************************************************)
(* Properties of the document editor.                                      *)
(***************************************************************************)

\* The debounce timer elapses: its callback runs sendDocumentUpdate.
TimerElapses == pendingTimers' = pendingTimers - 1 /\ events' = events /\ op' = op

\* At most one 500 ms timer is pending.
AtMostOneTimer == pendingTimers <= 1

\* When the timer elapses one document commit is submitted, and it carries
\* the text of the user's latest change.
ElapseSendsLatestEdit ==
  [][TimerElapses =>
       \E s \in sent' : s.content = latestEdit /\ sent' = sent \cup {s}]_vars

\* C12: at most one debounce timer is pending at any time; when it elapses,
\* exactly one document commit is submitted for the burst of local edits made
\* before, carrying the content of the most recent of them; the content of an
\* edit superseded within the window is never sent.
C12_DebounceSendsLatestEdit == []AtMostOneTimer /\ ElapseSendsLatestEdit

\* C12, the count of pending timers alone.
C12_AtMostOneTimer == AtMostOneTimer

\* C12 for edits typed while applyingRemoteDocument is clear: the pending
\* timer carries the latest of them.
C12_UnguardedEditIsPending ==
  [][(edits' /= edits /\ ~applyingRemoteDocument) =>
       (documentDebounce'.armed /\ documentDebounce'.content = latestEdit')]_vars

\* A step that writes remotely sourced content into the text: a live document
\* event is applied, or selectChannel shows the stored document.
RemoteWrite ==
  \/ events' /= events /\ lastEvent' = "document"
  \/ op.pc = "getMessages" /\ op'.pc /= "getMessages"

\* C13: the applyingRemoteDocument guard is set by the step that writes
\* remotely sourced content into the text, and while it is set the input
\* handler schedules no send; applying a remote document commit neither
\* submits a document commit nor arms a timer for one.
C13_GuardStopsEcho ==
  /\ [][RemoteWrite => applyingRemoteDocument']_vars
  /\ [][(edits' /= edits /\ applyingRemoteDocument) =>
          (documentDebounce' = documentDebounce /\ pendingTimers' = pendingTimers
           /\ sent' = sent)]_vars
  /\ [][RemoteWrite =>
          (sent' = sent /\ (documentDebounce'.armed => documentDebounce' = documentDebounce))]_vars

\* C13: the user typed while the guard of a remote commit was set, and no
\* timer is pending.
C13_Witness ==
  /\ applyingRemoteDocument
  /\ lastEvent = "document"
  /\ documentContent \in BurstValues
  /\ ~documentDebounce.armed
  /\ sent = {}

\* C17: historyIndex is null or an index of documentHistory, and null
\* whenever the history is empty, after any sequence of slider changes,
\* remote document commits, restores, channel selections and channel leaves.
C17_HistoryIndexInRange ==
  /\ \/ historyIndex = NullIndex
     \/ (0 <= historyIndex[1] /\ historyIndex[1] <= Len(documentHistory) - 1)
  /\ documentHistory = <<>> => historyIndex = NullIndex

\* C17: a second channel operation has reset the history after the slider was
\* moved, a remote commit applied and a version restored.
C17_Witness ==
  /\ ops = MaxOps
  /\ restores > 0
  /\ events > 0
  /\ documentHistory = <<>>
  /\ historyIndex = NullIndex

\* C17: the slider shows an earlier entry of the history.
C17_TimeTravel == ~(historyIndex /= NullIndex /\ currentChannel.id = "A")

\* The user moves the slider or restores a version.
ViewsOrRestores ==
  \/ restores' /= restores
  \/ historyIndex' /= historyIndex /\ procs' = procs /\ op' = op /\ events' = events
     /\ currentChannel' = currentChannel

\* A document commit is accepted: processCommitEvent has saved it, or the
\* ingestor moves on.
CommitAccepted ==
  \/ \E i \in ProcIds : procs[i].pc = "saveDocCommit" /\ procs'[i].pc /= "saveDocCommit"
  \/ ing' /= ing

\* selectChannel or leaveChannel resets the session.
SessionReset == op' /= op \/ currentChannel' /= currentChannel

\* C18: moving the history slider and restoring a version leave the
\* in-memory history and the stored document commits as they are; they change
\* only when a document commit is accepted or the channel session is reset.
C18_ViewingKeepsHistory ==
  /\ [][ViewsOrRestores =>
          (documentHistory' = documentHistory /\ docRows' = docRows)]_vars
  /\ [][(documentHistory' /= documentHistory \/ docRows' /= docRows) =>
          (CommitAccepted \/ SessionReset)]_vars

\* C18: a version was restored and the history still holds its two entries.
C18_Witness ==
  /\ restores > 0
  /\ Len(documentHistory) >= 2
  /\ historyIndex = NullIndex
  /\ documentContent = documentHistory[1].content
  /\ Cardinality({r \in docRows : r.channelId = currentChannel.id}) = Len(documentHistory)

\* handleRestoreVersion in time-travel mode at index k: the live text is
\* history[k].content, historyIndex is null, the attribution shown is
\* computeCharAttribution(history[0..k]), and a send of history[k].content is
\* pending.
RestoreSetsState ==
  [][restores' /= restores =>
       LET k == historyIndex[1]
       IN /\ documentContent' = documentHistory[k + 1].content
          /\ historyIndex' = NullIndex
          /\ charAttribution' =
               computeCharAttribution(EntriesOf(SubSeq(documentHistory, 1, k + 1)))
          /\ documentDebounce'.armed
          /\ documentDebounce'.by = "restore"
          /\ documentDebounce'.content = documentHistory[k + 1].content]_vars

LastModifiedNeverDecreases ==
  [][\A c \in Channels : dbLastModified'[c] >= dbLastModified[c]]_vars

\* A returned ingest call leaves last_modified at or above the timestamp of
\* every commit it accepted.
LastModifiedCoversIngest ==
  ing.pc = "done" => dbLastModified[ing.channel] >= ing.latestActivity

\* C20: a channel's persisted lastModified never decreases over channel
\* creation, document-id assignment, ingest calls and live commit events: it
\* is at least every earlier value, and at least the timestamp of every commit
\* an ingest call accepted for the channel.
C20_LastModifiedMonotone == LastModifiedNeverDecreases /\ []LastModifiedCoversIngest

\* C20, document-id assignment alone: updateChannelDocId does not lower
\* last_modified.
C20_DocIdAssignmentKeepsLastModified ==
  [][op.pc = "updateDocId" =>
       \A c \in Channels : dbLastModified'[c] >= dbLastModified[c]]_vars

\* C20, the ingestor alone: updateChannelLastModified does not lower
\* last_modified.
C20_IngestKeepsLastModified ==
  [][ing.pc = "updateLastModified" =>
       \A c \in Channels : dbLastModified'[c] >= dbLastModified[c]]_vars

\* C20, the second part alone.
C20_LastModifiedCoversIngest == LastModifiedCoversIngest

(***************************************************************************)
(* Properties of the delivery order of live commits.                       *)
(***************************************************************************)

\* Every commit of S was delivered and applied to the end, on a session that
\* started empty, and the user changed nothing.
AppliedExactly(S) ==
  /\ HashesOf(documentHistory) = S
  /\ S \subseteq processedCommitHashes
  /\ \A i \in ProcIds : procs[i].pc = "free"
  /\ edits = 0
  /\ restores = 0

\* The text of the newest entry of a history.
NewestContent(history) == history[Len(history)].content

\* C21: applying the same document commits in either delivery order ends
\* with the same history and the same live text.  The history is ordered by
\* timestamp, so the one text both orders can agree on is that of the newest
\* entry, which is what delivery in timestamp order shows.
C21_SameDocumentInAnyOrder ==
  AppliedExactly({"d1", "d2"}) =>
    /\ documentHistory[1].commitHash = "d1"
    /\ documentHistory[2].commitHash = "d2"
    /\ documentContent = NewestContent(documentHistory)

\* C21: delivery in timestamp order has shown the newest entry's text.
C21_InOrderShowsNewest ==
  AppliedExactly({"d1", "d2"}) /\ documentContent = "b"

\* C21: delivery against timestamp order has shown the older entry's text.
C21_OutOfOrderShowsOlder ==
  AppliedExactly({"d1", "d2"}) /\ documentContent = "a"

(***************************************************************************)
(* Properties of the processed-hash set.                                   *)
(***************************************************************************)

\* A processCommitEvent call that is suspended after it changed the editor
\* (document path, from line 583 on) or after its row was written (message
\* path on the worker API).
ChangedStateFor(i) == procs[i].pc \in {"saveDocument", "saveDocCommit", "selectChanges"}

\* The hash of a call that has changed state is in the processed-hash set.
HashRecordedFirst ==
  \A i \in ProcIds : ChangedStateFor(i) => procs[i].hash \in processedCommitHashes

\* No two suspended calls apply the same hash.
OverlappingEventsApplyOnce ==
  \A i, j \in ProcIds :
    (i /= j /\ procs[i].pc /= "free" /\ procs[j].pc /= "free") => procs[i].hash /= procs[j].hash

\* C22: a live commit's hash is in the processed-hash set in every state,
\* suspension points included, in which the editor text, the timer, the rows,
\* the history or the message list were changed for it, so two overlapping
\* events with the same hash apply it once.
C22_HashRecordedBeforeEffects == HashRecordedFirst /\ OverlappingEventsApplyOnce

\* C22, the first part alone.
C22_HashRecordedFirst == HashRecordedFirst

\* C22, the consequence alone.
C22_OverlappingEventsApplyOnce == OverlappingEventsApplyOnce

(***************************************************************************)
(* Properties of the remote-document guard.                                *)
(***************************************************************************)

\* C23: after a remote document commit was applied, and after the initial
\* load of a channel document, the applyingRemoteDocument guard is cleared
\* again, on every path through processCommitEvent: it never stays set.
C23_GuardEventuallyCleared == applyingRemoteDocument ~> ~applyingRemoteDocument

\* C23, the initial load alone: the guard set by selectChannel is cleared.
C23_LoadGuardCleared ==
  (applyingRemoteDocument /\ \A i \in ProcIds : procs[i].pc = "free" /\ events = 0)
    ~> ~applyingRemoteDocument

\* C23: a guard that is set has a callback pending that clears it, or a
\* processCommitEvent call under way that will schedule one.
C23_SetGuardHasTimer ==
  applyingRemoteDocument =>
    \/ guardTimers > 0
    \/ \E i \in ProcIds : procs[i].pc \in {"saveDocument", "saveDocCommit"}

(***************************************************************************)
(* Properties of the document snapshot an ingest call leaves.              *)
(***************************************************************************)

\* The document rows of the channel of the ingest call.  After the first call
\* on the empty store they are the valid document commits of its batch, each
\* with the timestamp the call gave it.
BatchDocuments == {r \in docRows : r.channelId = ing.channel}

\* The snapshot holds commit r.
SnapshotIs(r) ==
  snapshots[ing.channel] =
    [content |-> r.content, updatedAt |-> r.timestamp, latestCommitHash |-> r.commitHash]

\* After a batch with a valid document commit the snapshot is the one with the
\* greatest timestamp.
SnapshotIsNewestDocument ==
  (ing.pc = "done" /\ ingests = 1 /\ BatchDocuments /= {}) =>
    \E r \in BatchDocuments :
      /\ \A q \in BatchDocuments : q.timestamp <= r.timestamp
      /\ SnapshotIs(r)

\* A batch without a valid document commit leaves the snapshot as it was.
NoDocumentKeepsSnapshot ==
  (ing.pc = "done" /\ ing.documentCount = 0) =>
    snapshots[ing.channel] = prev.snapshots[ing.channel]

\* C24: after ingest of a batch with a valid document commit, the channel's
\* snapshot holds the content and hash of the document commit with the
\* greatest timestamp of the batch, and that timestamp, in whatever order the
\* batch lists its commits; a batch without one leaves the snapshot unchanged.
C24_SnapshotIsNewestDocument == SnapshotIsNewestDocument /\ NoDocumentKeepsSnapshot

\* C24, the first part alone.
C24_NewestDocumentWins == SnapshotIsNewestDocument

\* C24, the second part alone.
C24_NoDocumentKeepsSnapshot == NoDocumentKeepsSnapshot

(***************************************************************************)
(* Properties of batches with malformed commits.                           *)
(***************************************************************************)

\* A payload that fails to parse, or a message or document payload without a
\* string content.
Malformed(h) ==
  LET p == PayloadOf(h)
  IN p.encoded /\ (~p.parses \/ (TypeOf(p) \in {"document", "message"} /\ p.content = NoField))

WithoutMalformed(list) == SelectSeq(list, LAMBDA h : ~Malformed(h))

\* persistCommitsForChannel run from frame g to its end on the rows msgs and
\* docs, with no other task in between: what the call stores and returns.
RECURSIVE Persisted(_, _, _)
Persisted(g, msgs, docs) ==
  IF g.pc = "saveDocCommit"
    THEN LET h == g.list[g.pos]
             p == PayloadOf(h)
             row == [channelId |-> g.channel, commitHash |-> h, user |-> UserOf(p),
                     content |-> p.content, timestamp |-> g.ts]
         IN Persisted(IngestLoop([g EXCEPT !.latestDocumentTimestamp = Max(@, g.ts),
                                           !.latestDocumentHash = h,
                                           !.latestDocumentContent = p.content,
                                           !.documentCount = @ + 1,
                                           !.pos = @ + 1]),
                      msgs, InsertDocCommit(docs, row))
  ELSE IF g.pc = "saveMessage"
    THEN LET h == g.list[g.pos]
             p == PayloadOf(h)
             row == [commitHash |-> h, channelId |-> g.channel, user |-> UserOf(p),
                     content |-> p.content, timestamp |-> g.ts]
         IN Persisted(CountMessage(g, InsertMessage(msgs, row) /= msgs),
                      InsertMessage(msgs, row), docs)
  ELSE [msgRows |-> msgs, docRows |-> docs,
        messageCount |-> g.messageCount, documentCount |-> g.documentCount,
        latestActivity |-> g.latestActivity,
        snapshot |-> IF g.documentCount > 0
                       THEN [content |-> g.latestDocumentContent,
                             updatedAt |-> IF g.latestDocumentTimestamp /= 0
                                             THEN g.latestDocumentTimestamp ELSE now,
                             latestCommitHash |-> g.latestDocumentHash]
                       ELSE NoSnapshot]

\* What ingest of the list on the empty store stores for the channel of the
\* running call.
StoredBy(list) ==
  Persisted(StartIngest(ing.channel, ing.chanLastModified, list), {}, {})

\* C25: a malformed commit inside a batch is skipped, uncounted, and the
\* batch goes on: what a returned ingest call on the empty store has stored
\* and counted is what ingest of its list without the malformed commits
\* stores and counts.
C25_MalformedIsSkipped ==
  (ing.pc = "done" /\ ingests = 1) =>
    LET clean == StoredBy(WithoutMalformed(ing.list))
    IN /\ msgRows = clean.msgRows
       /\ docRows = clean.docRows
       /\ snapshots[ing.channel] = clean.snapshot
       /\ ing.messageCount = clean.messageCount
       /\ ing.documentCount = clean.documentCount

\* C25: a returned call whose batch holds a commit that does not parse and a
\* document commit without content, before a valid message.
C25_Witness ==
  /\ ing.pc = "done"
  /\ ing.list = <<"x1", "n2", "m1">>
  /\ \E r \in msgRows : r.commitHash = "m1"
  /\ ing.messageCount = 1

\* C25: a valid document commit after a message commit without content.
C25_WitnessDocument ==
  /\ ing.pc = "done"
  /\ ing.list = <<"d1", "n1", "d1">>
  /\ ing.documentCount = 2
  /\ snapshots["A"].latestCommitHash = "d1"

(***************************************************************************)
(* Properties of batches with a commit in an unsupported encoding.         *)
(***************************************************************************)

\* toUint8Array rejects the contents of the commit.
Unsupported(h) == ~PayloadOf(h).encoded

WithoutUnsupported(list) == SelectSeq(list, LAMBDA h : ~Unsupported(h))

\* The ingest call has settled: it returned or it threw.
IngestSettled == ing.pc \in {"done", "threw"} /\ ingests = 1

\* C26: a commit in an unsupported encoding is contained per commit: it is
\* skipped, every other commit of the batch, before and after it, is
\* persisted, and the snapshot and lastModified updates at the end of the
\* batch still happen.
C26_UnsupportedEncodingIsContained ==
  IngestSettled =>
    LET rest == StoredBy(WithoutUnsupported(ing.list))
    IN /\ msgRows = rest.msgRows
       /\ docRows = rest.docRows
       /\ snapshots[ing.channel] = rest.snapshot
       /\ rest.latestActivity /= ing.chanLastModified =>
            dbLastModified[ing.channel] = rest.latestActivity

\* C26, the commits before the offending one alone: they are persisted.
C26_EarlierCommitsPersisted ==
  (IngestSettled /\ Len(ing.list) >= ing.pos) =>
    LET before == StoredBy(WithoutUnsupported(SubSeq(ing.list, 1, ing.pos - 1)))
    IN msgRows = before.msgRows /\ docRows = before.docRows

\* C26: a call that threw on the second commit of its batch, after it had
\* stored the first.
C26_ThrewAfterFirst ==
  /\ ing.pc = "threw"
  /\ ing.list = <<"m1", "u1", "d1">>
  /\ \E r \in msgRows : r.commitHash = "m1"
  /\ docRows = {}

(***************************************************************************)
(* Properties of live events with invalid payloads.                        *)
(***************************************************************************)

\* The event with commit h leaves no message and no document revision, in
\* the page or on its way to the store, and records h as processed.
IgnoredAndRecorded(h) ==
  EventArrives("X", h) =>
    /\ messages' = messages
    /\ documentHistory' = documentHistory
    /\ procs' = procs
    /\ h \in processedCommitHashes'

\* C27: a live commit whose payload is unparseable, of an unknown type or
\* without its fields produces no message and no document revision, and its
\* hash is recorded in the processed-hash set.
C27_InvalidIsIgnoredAndRecorded ==
  [][\A h \in InvalidHashes : IgnoredAndRecorded(h)]_vars

\* C27, payloads that lack a field alone: a message without content or user,
\* a document without content, an unknown type without content.
C27_MissingFieldIsRecorded ==
  [][\A h \in {"n1", "n2", "m2", "i0"} : IgnoredAndRecorded(h)]_vars

\* C27, text that does not parse alone.
C27_UnparseableIsRecorded == [][IgnoredAndRecorded("x1")]_vars

\* C27, an unknown type with user and content alone.
C27_UnknownTypeIsIgnored == [][IgnoredAndRecorded("k1")]_vars

\* C27: a second delivery of a payload that lacks a field is a duplicate.
C27_SecondDelivery == lastEvent = "duplicate" /\ processedCommitHashes = {"n2"}

(***************************************************************************)
(* Properties of commit hashes.                                            *)
(***************************************************************************)

\* Two commits with the same content and different parents have different
\* hashes.
HashCoversParents ==
  (attrOp = "createCommit" /\ attrIn.parents /= attrIn.others) =>
    attrOut[1].hash /= attrOut[2].hash

\* The hash the service computes is the hash the page computed.
ServiceRecomputesSameHash ==
  attrOp \in {"createDoc", "addWorkerCommit"} => attrOut[2].hash = attrOut[1].hash

\* C28: a commit's hash is a function of its contents and its parents: the
\* same content on different parent lists gets different hashes, and the hash
\* the service recomputes for a commit is the hash the client computed.
C28_HashOfContentsAndParents == HashCoversParents /\ ServiceRecomputesSameHash

\* C28, the first part alone.
C28_HashCoversParents == HashCoversParents

\* C28, the second part alone.
C28_ServiceRecomputesSameHash == ServiceRecomputesSameHash

\* C28: the first part holds between commits of different contents.
C28_HashCoversContents ==
  attrOp = "createCommit" =>
    \A c \in CommitContents :
      c /= attrIn.content => createCommit(c, attrIn.parents).hash /= attrOut[1].hash

(***************************************************************************)
(* Properties of the in-memory document history.                           *)
(***************************************************************************)

DistinctHashes(history) ==
  \A i, j \in DOMAIN history : history[i].commitHash = history[j].commitHash => i = j

SortedByTimestamp(history) ==
  \A i, j \in DOMAIN history : i < j => history[i].timestamp <= history[j].timestamp

\* The new history is the old one, or the old one with one entry inserted.
AtMostOneInserted(old, new) ==
  \/ new = old
  \/ \E k \in DOMAIN new : RemoveAt(new, k) = old

\* processCommitEvent has accepted a document commit.
DocumentCommitAccepted ==
  \E i \in ProcIds : procs[i].pc = "saveDocCommit" /\ procs'[i].pc = "free"

C29_WitnessSorted ==
  /\ Len(documentHistory) = 2
  /\ documentHistory[1].commitHash = "d1"
  /\ documentHistory[2].commitHash = "d2"
  /\ lastEvent = "document"
  /\ documentContent = "a"
  /\ \A i \in ProcIds : procs[i].pc = "free"

\* C29 across channel sessions: outside the steps of selectChannel and
\* leaveChannel the history only grows, and it is always distinct and sorted.
C29_GrowsWithinSession ==
  /\ [](DistinctHashes(documentHistory) /\ SortedByTimestamp(documentHistory))
  /\ [][SessionReset \/ AtMostOneInserted(documentHistory, documentHistory')]_vars
  /\ [][DocumentCommitAccepted => AtMostOneInserted(documentHistory, documentHistory')]_vars

(***************************************************************************)
(* Properties of computeCharAttribution on histories with empty entries.   *)
(***************************************************************************)

\* Entry k is the first entry with a non-empty content.
FirstNonEmpty(entries, k) ==
  /\ entries[k].content /= <<>>
  /\ \A j \in 1..(k - 1) : entries[j].content = <<>>

\* The entries after entry k.
After(entries, k) == SubSeq(entries, k + 1, Len(entries))

\* C30: computeCharAttribution attributes every character of the first
\* non-empty entry to that entry's user, and an entry with empty content
\* resets the attribution whatever came before it: the result is that of the
\* entries after the empty one.
C30_EmptyEntryResets ==
  attrOp = "compute" =>
    LET entries == attrIn.entries
    IN /\ (entries /= <<>> /\ FirstNonEmpty(entries, Len(entries))) =>
            attrOut = AllBy(ArrayFromString(entries[Len(entries)].content),
                            entries[Len(entries)].user)
       /\ \A k \in DOMAIN entries :
            entries[k].content = <<>> => attrOut = computeCharAttribution(After(entries, k))
       /\ \A k \in DOMAIN entries :
            (FirstNonEmpty(entries, k) /\ \A j \in (k + 1)..Len(entries) :
                                            entries[j].user = entries[k].user) =>
              \A i \in DOMAIN attrOut : attrOut[i].author = entries[k].user

\* C30: alice's text, an empty entry, then bob's text with the same
\* characters: all of it is bob's.
C30_Witness ==
  /\ attrOp = "compute"
  /\ Len(attrIn.entries) = 3
  /\ attrIn.entries[1] = [user |-> "alice", content |-> <<"a", "b">>]
  /\ attrIn.entries[2].content = <<>>
  /\ attrIn.entries[3] = [user |-> "bob", content |-> <<"a", "b">>]
  /\ attrOut = AllBy(<<"a", "b">>, "bob")

\* C30: the history of one entry, hello by alice, gives five characters of
\* alice.
C30_HelloByAlice ==
  /\ attrOp = "compute"
  /\ attrIn.entries = <<[user |-> "alice", content |-> <<"h", "e", "l", "l", "o">>]>>
  /\ attrOut = HelloByAlice

(***************************************************************************)
(* The history slider.                                                     *)
(***************************************************************************)

\* What handleHistorySliderChange(n) leaves in historyIndex on a history of
\* the given length.
SliderResult(n, length) ==
  IF n >= length - 1 THEN NullIndex
  ELSE IF n < 0 THEN At(0)
  ELSE At(n)

C31_ClampedToFirst ==
  /\ Len(documentHistory) >= 2
  /\ historyIndex = At(0)

(***************************************************************************)
(* Cursor preservation.                                                    *)
(***************************************************************************)

Clamped(offset, low, high) == Max(low, Min(offset, high))

\* The selection the textarea is to have after the commit was applied.
ExpectedSelection ==
  LET lengthDiff == Len(attrIn.newContent) - Len(attrIn.latest)
  IN [start |-> Clamped(attrIn.selectionStart + lengthDiff, 0, Len(attrIn.newContent)),
      end |-> Clamped(attrIn.selectionEnd + lengthDiff, 0, Len(attrIn.newContent))]

SelectionIs(sel) ==
  /\ attrOut.textarea.selectionStart = sel.start
  /\ attrOut.textarea.selectionEnd = sel.end

\* C32: when a remote document commit is applied, both selection offsets
\* are shifted by lengthDiff = length(newContent) - length(oldContent), and
\* the selection restored to the textarea, as the reactive block writes it
\* and as the textarea holds it once the new text is shown, has start and
\* end equal to the shifted values clamped to [0, length(newContent)].
C32_SelectionShiftedAndClamped ==
  /\ attrOp = "applied" =>
       LET lengthDiff == Len(attrIn.newContent) - Len(attrIn.latest)
       IN /\ attrOut.cursorPosition.start = Max(0, attrIn.selectionStart + lengthDiff)
          /\ attrOut.cursorPosition.end = Max(0, attrIn.selectionEnd + lengthDiff)
  /\ attrOp \in {"restored", "rendered"} => SelectionIs(ExpectedSelection)

\* C32: the part that holds: the recorded offsets are shifted by lengthDiff
\* and kept at or above 0.
C32_ShiftedByLengthDiff ==
  attrOp = "applied" =>
    LET lengthDiff == Len(attrIn.newContent) - Len(attrIn.latest)
    IN /\ attrOut.cursorPosition.start = Max(0, attrIn.selectionStart + lengthDiff)
       /\ attrOut.cursorPosition.end = Max(0, attrIn.selectionEnd + lengthDiff)

\* C32: the selection the reactive block writes is the shifted one clamped
\* to the new text.
C32_RestoredWithinNewText ==
  attrOp = "restored" => SelectionIs(ExpectedSelection)

\* C32: the selection of the textarea once it shows the new text, in live
\* mode with no unsent local edit.
C32_SelectionAfterUpdate ==
  (/\ attrOp = "rendered"
   /\ ~attrIn.timeTravel
   /\ attrIn.shown = attrIn.latest) => SelectionIs(ExpectedSelection)

\* C32: the textarea shows "a" with the caret before it and the commit
\* carries "abc": the caret belongs at 2, and it is there in no outcome.
C32_CaretLostEitherWay ==
  (/\ attrOp \in {"restored", "rendered"}
   /\ ~attrIn.timeTravel
   /\ attrIn.latest = <<"a">> /\ attrIn.shown = <<"a">>
   /\ attrIn.newContent = <<"a", "b", "c">>
   /\ attrIn.selectionStart = 0 /\ attrIn.selectionEnd = 0)
  => /\ ExpectedSelection = [start |-> 2, end |-> 2]
     /\ ~SelectionIs(ExpectedSelection)

(***************************************************************************)
(* Broadcasts against removals and releases.                               *)
(***************************************************************************)

\* The registration a step of broadcast b calls handleServerEvent on, as a
\* set: empty when the step makes no delivery attempt.
Attempted(b) ==
  IF Len(req'[b].offered) > Len(req[b].offered)
    THEN {req'[b].offered[Len(req'[b].offered)]}
    ELSE {}

\* C33: a broadcast never delivers an event to a registration that has
\* already been removed (by unregister, by connection breakage or by an
\* earlier delivery failure) at the moment of the delivery attempt, even
\* when the removal happened while the broadcast was suspended awaiting an
\* earlier subscriber's delivery: every registration a broadcast calls is
\* in the registration set when it is called.
C33_NoDeliveryToRemoved ==
  [][\A b \in ReqIds : \A id \in Attempted(b) :
       /\ id \in Range(clientTargets')
       /\ removedBy'[id] = "none"]_vars

\* C33: the part that holds: a registration removed before the broadcast
\* took its snapshot is not called.
C33_RemovedBeforeBroadcastIsSkipped ==
  [][\A b \in ReqIds : \A id \in Attempted(b) : id \notin req'[b].goneAtStart]_vars

\* C33: the part that holds: no delivery to a removed registration
\* resolves; the call throws and the loop goes on.
C33_DeliveryToRemovedThrows ==
  [][\A b \in ReqIds :
       (/\ req[b].phase = "await"
        /\ req'[b] /= req[b]
        /\ req'[b].threw = req[b].threw)
         => removedBy[req[b].snap[req[b].idx]] = "none"]_vars

\* C33: a broadcast is suspended on a registration that was removed while
\* it awaited an earlier one.
C33_CalledAfterRemoval ==
  \E b \in ReqIds :
    /\ req[b].phase = "await"
    /\ req[b].idx > 1
    /\ removedBy[req[b].snap[req[b].idx]] \in {"unregister", "broken"}

\* C34: each retained target reference is released at most once: over any
\* interleaving of unregister, delivery failure in broadcast and the owning
\* connection's broken callback, the dispose of one registration's retained
\* reference is never invoked a second time.
C34_ReleasedAtMostOnce == \A id \in RegIds : disposeCount[id] <= 1

\* C34: a registration was released by unregister and released again by the
\* broadcast that had it in its snapshot; no connection has broken.
C34_UnregisteredThenFailed ==
  \E id \in RegIds, b \in ReqIds :
    /\ brokenConns = {}
    /\ removedBy[id] = "unregister"
    /\ id \in req[b].threw
    /\ disposeCount[id] = 2

(***************************************************************************)
(* Live events and channel switches.                                       *)
(***************************************************************************)

\* C35: a commit event for document X only ever changes state of the
\* channel whose docId is X, the channel that was open when the event
\* arrived: a suspended processCommitEvent call keeps writing under that
\* channel, and it adds its revision to the history, or its message to the
\* message list, only while that channel is still the open one, even when
\* the user switches channel while the call is suspended at a store write.
C35_EventStaysInItsChannel ==
  [][\A i \in ProcIds :
       /\ (ProcSaveDocument(i) /\ procs'[i].pc = "saveDocCommit")
            => procs'[i].channelId = procs[i].channelId
       /\ (ProcSaveDocCommit(i) /\ documentHistory' /= documentHistory)
            => currentChannel.id = procs[i].channelId
       /\ ((ProcSaveMessage(i) \/ ProcSelectChanges(i)) /\ messages' /= messages)
            => currentChannel.id = procs[i].channelId]_vars

\* C35: the part that holds: an event for a document other than the open
\* channel's is dropped on arrival.
C35_OtherDocumentIsDropped ==
  [][\A d \in DocIds, h \in SwitchHashes :
       (EventArrives(d, h) /\ (currentChannel = NoChannel \/ currentChannel.docId /= d))
         => /\ procs' = procs
            /\ documentHistory' = documentHistory
            /\ messages' = messages
            /\ docRows' = docRows /\ msgRows' = msgRows]_vars

\* C35: a document revision received in channel A is stored under B.
C35_RevisionUnderOtherChannel ==
  \E row \in docRows :
    /\ row.commitHash = "d1"
    /\ row.channelId = "B"
    /\ snapshots["A"].latestCommitHash = "d1"

\* C35, the store part alone: the call writes under the channel the event
\* arrived in.
C35_WritesKeepTheirChannel ==
  [][\A i \in ProcIds :
       (ProcSaveDocument(i) /\ procs'[i].pc = "saveDocCommit")
         => procs'[i].channelId = procs[i].channelId]_vars

\* C35, the history part alone.
C35_HistoryOfOpenChannel ==
  [][\A i \in ProcIds :
       (ProcSaveDocCommit(i) /\ documentHistory' /= documentHistory)
         => currentChannel.id = procs[i].channelId]_vars

\* C35, the message list part alone.
C35_MessageListOfOpenChannel ==
  [][\A i \in ProcIds :
       ((ProcSaveMessage(i) \/ ProcSelectChanges(i)) /\ messages' /= messages)
         => currentChannel.id = procs[i].channelId]_vars

(***************************************************************************)
(* Local edits against remote document commits.                            *)
(***************************************************************************)

\* The edit v has been submitted as an outgoing document commit.
Submitted(v) == \E c \in sent : c.content = v

\* Every local edit is eventually submitted unless a newer local edit
\* supersedes it or the user leaves the channel.
EditEventuallySubmitted ==
  \A v \in BurstValues :
    (edits > 0 /\ latestEdit = v)
      ~> (Submitted(v) \/ latestEdit /= v \/ currentChannel = NoChannel)

\* A remote document commit leaves the pending send as it is.
RemoteKeepsPendingEdit ==
  [][\A d \in DocIds, h \in DocumentHashes :
       (EventArrives(d, h) /\ documentDebounce.armed)
         => documentDebounce' = documentDebounce]_vars

\* C36: no local edit is silently lost: every local edit made in live mode
\* on a connected channel is eventually submitted as an outgoing document
\* commit unless a newer local edit supersedes it or the user leaves the
\* channel, and the arrival or application of a remote document commit does
\* not discard a pending local edit.
C36_NoLocalEditLost == EditEventuallySubmitted /\ RemoteKeepsPendingEdit

\* C36, its first half alone.
C36_EditEventuallySubmitted == EditEventuallySubmitted

\* C36, its second half alone.
C36_RemoteKeepsPendingEdit == RemoteKeepsPendingEdit

\* C36: the part that holds: an edit typed while no remote commit is being
\* applied, and followed by no remote document commit, is submitted.
C36_UndisturbedEditIsSubmitted ==
  \A v \in BurstValues :
    (edits > 0 /\ latestEdit = v /\ documentDebounce.armed /\ documentDebounce.content = v)
      ~> (Submitted(v) \/ latestEdit /= v \/ lastEvent = "document")

\* C36: the user's latest edit was never submitted, no send is pending and
\* nothing is left to run.
C36_EditLost ==
  /\ edits > 0
  /\ ~Submitted(latestEdit)
  /\ ~documentDebounce.armed
  /\ ~applyingRemoteDocument
  /\ \A i \in ProcIds : procs[i].pc = "free"

(***************************************************************************)
(* The live path against the bulk path.                                    *)
(***************************************************************************)

\* What persistCommitsForChannel stores for the single commit h on the empty
\* store of channel A.
IngestStores(h) == Persisted(StartIngest("A", chanLm["A"], <<h>>), {}, {})

\* The rows the store holds for commit h.
MessageRowsOf(h) == {r \in msgRows : r.commitHash = h}
DocumentRowsOf(h) == {r \in docRows : r.commitHash = h}

\* No processCommitEvent call is working on commit h.
Settled(h) == \A i \in ProcIds : procs[i].pc = "free" \/ procs[i].hash /= h

\* The live path has stored for h what the bulk path stores for it: nothing
\* the bulk path would not store, and, once the live path has dealt with h,
\* the same row (kind, user, content, timestamp).
PathsAgreeOn(h) ==
  Settled(h) =>
    /\ MessageRowsOf(h) \subseteq IngestStores(h).msgRows
    /\ DocumentRowsOf(h) \subseteq IngestStores(h).docRows
    /\ h \in processedCommitHashes =>
         /\ MessageRowsOf(h) = IngestStores(h).msgRows
         /\ DocumentRowsOf(h) = IngestStores(h).docRows

\* C37: the live event path and the bulk ingest path agree on every commit:
\* fed the same commit they make the same acceptance decision and persist
\* the same row (same kind, same user after trimming and defaulting, same
\* content, same timestamp).
C37_PathsAgree == \A h \in PathHashes : PathsAgreeOn(h)

\* C37: the part that holds: the two paths agree on document commits, on
\* commits that do not decode or parse, and on message commits that carry a
\* trimmed user name.
C37_AgreeOnDocuments == \A h \in {"d1", "d2", "n1", "n2", "x1", "u1", "m1"} : PathsAgreeOn(h)

\* C37: a valid document commit went through the live path and is stored
\* as the bulk path stores it, its user trimmed.
C37_DocumentAgrees ==
  /\ "d2" \in processedCommitHashes
  /\ DocumentRowsOf("d2") = IngestStores("d2").docRows
  /\ \E r \in docRows : r.commitHash = "d2" /\ r.user = "bob"

\* C37: the live path stored a message under its untrimmed user name.
C37_UntrimmedUser == \E r \in msgRows : r.commitHash = "m3" /\ r.user = " bob "

\* C37: the live path ignored a message the bulk path stores as anonymous.
C37_UntypedIgnored ==
  /\ "m2" \in processedCommitHashes
  /\ MessageRowsOf("m2") = {}
  /\ \E r \in IngestStores("m2").msgRows : r.user = "anonymous"

\* C37: the live path stored a commit of a type the bulk path ignores.
C37_UnknownTypeStored ==
  /\ MessageRowsOf("k1") /= {}
  /\ IngestStores("k1").msgRows = {}

(***************************************************************************)
(* The revision on view against remote commits.                            *)
(***************************************************************************)

\* `selectedTimelineEntry`, lines 1203-1206, in time-travel mode.
SelectedTimelineEntry == documentHistory[historyIndex[1] + 1]

\* A step in which a remote document commit entered the history while the
\* viewer stayed in time-travel mode at the same index.
CommitArrivesOnView ==
  /\ IsTimeTravelMode
  /\ historyIndex' = historyIndex
  /\ Len(documentHistory') = Len(documentHistory) + 1

\* The timestamp of the entry a step added to the history.
AddedTimestamp ==
  LET k == CHOOSE j \in DOMAIN documentHistory' :
             documentHistory'[j].commitHash \notin HashesOf(documentHistory)
  IN documentHistory'[k].timestamp

\* C38: while the viewer stays in time-travel mode at a fixed non-null
\* historyIndex, the content and the attribution shown for that position do
\* not change when remote document commits arrive, whatever their
\* timestamps.
C38_ViewIsStable ==
  [][CommitArrivesOnView =>
       /\ SelectedTimelineEntry' = SelectedTimelineEntry
       /\ charAttribution' = charAttribution]_vars

\* C38: the part that holds: a commit stamped no earlier than the revision
\* on view leaves the view as it is.
C38_LaterCommitKeepsView ==
  [][(CommitArrivesOnView /\ AddedTimestamp >= SelectedTimelineEntry.timestamp) =>
       /\ SelectedTimelineEntry' = SelectedTimelineEntry
       /\ charAttribution' = charAttribution]_vars

\* C38: the part that holds: the arrival of the commit, before it enters
\* the history, changes the live text and not the view.
C38_ArrivalKeepsView ==
  [][(IsTimeTravelMode /\ historyIndex' = historyIndex
      /\ documentHistory' = documentHistory) => charAttribution' = charAttribution]_vars

(***************************************************************************)
(* The attribution of a restored text after its commit came back.          *)
(***************************************************************************)

\* The commit of the restored revision k has been accepted and its echo is
\* the newest entry of the history; the page shows the restored text live.
EchoOfRestoreAdded(k) ==
  /\ restores > 0
  /\ Len(documentHistory) = Len(Versions) + 1
  /\ SubSeq(documentHistory, 1, Len(Versions)) = Versions
  /\ documentHistory[Len(documentHistory)].commitHash \in EchoHashes
  /\ documentHistory[Len(documentHistory)].content = Versions[k + 1].content
  /\ documentContent = Versions[k + 1].content
  /\ historyIndex = NullIndex
  /\ \A i \in ProcIds : procs[i].pc = "free"

\* C39: restoring preserves prior authors durably: after the commit emitted
\* by restore(k) has been accepted and its echo has been added to the
\* document history, the live attribution of the restored text still equals
\* computeCharAttribution(history[0..k]).
C39_RestoredAuthorsKept ==
  \A k \in 0..(Len(Versions) - 1) :
    EchoOfRestoreAdded(k) =>
      charAttribution = computeCharAttribution(EntriesOf(SubSeq(documentHistory, 1, k + 1)))

\* C39: the part that holds: the attribution restore computed stays while
\* nothing makes the page compute it again.
C39_KeptWhileUntouched ==
  [][(restores > 0 /\ historyIndex' = historyIndex /\ documentHistory' = documentHistory
      /\ documentContent' = documentContent /\ restores' = restores)
       => charAttribution' = charAttribution]_vars

\* C39: the echo of restore(0) is in the history and the second character
\* of v1, written by alice, is shown as the restoring user's.
C39_RestorerOwnsRestoredText ==
  /\ EchoOfRestoreAdded(0)
  /\ Len(charAttribution) = 2
  /\ charAttribution[2].author = LocalUser
  /\ computeCharAttribution(EntriesOf(SubSeq(Versions, 1, 1)))[2].author = "alice"

(***************************************************************************)
(* The page's subscription flag against the service's registrations.       *)
(***************************************************************************)

\* C40: client and broker agree on the subscription: whenever the client's
\* subscriptionActive flag is set with subscriptionDocId = d, the broker
\* holds a live registration of that client's target with filter d, so a
\* client that believes it is subscribed is offered every later commit
\* event broadcast for d.
C40_FlagImpliesRegistration ==
  \A d \in DocIds :
    (subscriptionActive /\ subscriptionDocId = d) =>
      /\ LivePageRegs(d) /= {}
      /\ PageOffers(d) /= {}

\* C40: the part that holds: when the flag is set by subscribeToRpc, the
\* service has handled the registration of that call.
C40_RegisteredWhenFlagIsSet ==
  [][\A k \in CallIds :
       (SubsSubscribed(k) /\ subscriptionActive')
         => \E id \in 1..(nextReg - 1) :
              /\ regs[id].orig = PageStub(calls[k].session)
              /\ regs[id].docId = subscriptionDocId']_vars

\* C40: the page believes it is subscribed to X, no call is running, and the
\* service holds no registration of the page.
C40_SubscribedToNothing ==
  /\ subscriptionActive
  /\ subscriptionDocId = "X"
  /\ \A k \in CallIds : calls[k] = NoCall
  /\ wire = <<>>
  /\ \A id \in Range(clientTargets) : regs[id].orig \notin PageStubs

====
